---- MODULE Spec2Model ----
(***************************************************************************)
(* Verification model of the eightfold octree repository.                  *)
(*                                                                         *)
(* Three objects are modelled, one per value of `focus`:                   *)
(*   "lib"  - a stablevec::StableVec<T>  (lib/stablevec/src/{lib,alloc}.rs) *)
(*   "vec"  - a crate::vec::StableVec<T> (src/vec.rs)                       *)
(*   "tree" - an Octree<T, Idx>          (src/tree.rs, src/tree/merge.rs),  *)
(*            whose three arenas are crate::vec::StableVec values, as      *)
(*            imported by src/tree.rs line 23.                              *)
(* A behaviour exercises one object; the other variables keep their        *)
(* constructed value.  Indices are 0-based as in the source: an array is a  *)
(* function over 0..n-1.                                                    *)
(*                                                                         *)
(* bitvec: `BitVec::reserve`/`reserve_exact` change the capacity and never  *)
(* the length; `first_zero`, `first_one`, `last_one`, `get`, `replace`,     *)
(* `set` and indexing see the bits below the length only; the `_unchecked`  *)
(* accessors reach the raw bit behind the length.  A raw bit that was never *)
(* written has no defined value: a call that reads one takes the value from *)
(* an oracle chosen per call.                                               *)
(***************************************************************************)
EXTENDS Integers, Sequences, FiniteSets, TLC

(* ------------------------------ bounds -------------------------------- *)

\* number of distinct payload values
NumVals == 2
\* largest capacity a stablevec::StableVec is grown to
MaxCap == 5
\* largest length of the `other` vector handed to extend_from_other
MaxOther == 2

Val == 1..NumVals

\* marker of a slot that holds no live value (MaybeUninit::uninit, or moved out)
Uninit == 0

(* ------------------------------ helpers ------------------------------- *)

Max(a, b) == IF a >= b THEN a ELSE b
Min(a, b) == IF a <= b THEN a ELSE b

SetMin(S) == CHOOSE x \in S : \A y \in S : x <= y
SetMax(S) == CHOOSE x \in S : \A y \in S : x >= y

\* the array of length n whose slots all hold v
Arr(n, v) == [i \in 0..(n - 1) |-> v]
ALen(a) == Cardinality(DOMAIN a)

\* BitSlice::first_one / first_zero / last_one over the bits below `len`; -1 is None
FirstOne(bits, len) ==
    LET S == {i \in 0..(len - 1) : bits[i] = TRUE} IN IF S = {} THEN -1 ELSE SetMin(S)
FirstZero(bits, len) ==
    LET S == {i \in 0..(len - 1) : bits[i] = FALSE} IN IF S = {} THEN -1 ELSE SetMin(S)
LastOne(bits, len) ==
    LET S == {i \in 0..(len - 1) : bits[i] = TRUE} IN IF S = {} THEN -1 ELSE SetMax(S)

\* `let x = e;`: e is evaluated once and handed to the rest of the block
Let(e, Rest(_)) == CHOOSE y \in {Rest(x) : x \in {e}} : TRUE

\* the empty index map, and a map with one more entry (HashMap::insert)
EmptyMap == [i \in {} |-> 0]
MapInsert(m, k, v) == [i \in (DOMAIN m) \cup {k} |-> IF i = k THEN v ELSE m[i]]

(* =================== stablevec::StableVec (lib/stablevec) ============== *)
(* data  : the Box<[MaybeUninit<T>]>, one slot per index below capacity     *)
(* bits  : the raw bits of `flags`, one per index below capacity            *)
(* flen  : flags.len()                                                      *)
(* count : the `count` field                                                *)

LNew == [data |-> Arr(0, Uninit), bits |-> Arr(0, FALSE), flen |-> 0, count |-> 0]

LCapacity(s) == ALen(s.data)
LSpareCapacity(s) == LCapacity(s) - s.count
LLenInit(s) == s.count
LIsInit(s, index) == index < s.flen /\ s.bits[index]
LGet(s, index) == IF LIsInit(s, index) THEN s.data[index] ELSE Uninit

MinNonZeroCap == 4

\* StableVec::grow: the buffer is reallocated to new_cap slots and
\* expand_flags pushes false bits until flags.len() == capacity
LGrow(s, new_cap) ==
    [s EXCEPT !.data = [i \in 0..(new_cap - 1) |->
                            IF i < LCapacity(s) THEN s.data[i] ELSE Uninit],
              !.bits = [i \in 0..(new_cap - 1) |->
                            IF i < s.flen THEN s.bits[i] ELSE FALSE],
              !.flen = Max(s.flen, new_cap)]

LGrowExact(s, additional) == LGrow(s, LCapacity(s) + additional)
LGrowAmortized(s, additional) ==
    LGrow(s, Max(Max(LCapacity(s) + additional, LLenInit(s) * 2), MinNonZeroCap))

LReserve(s, additional) ==
    IF additional >= LSpareCapacity(s)
    THEN LGrowAmortized(s, additional - LSpareCapacity(s)) ELSE s
LReserveExact(s, additional) ==
    IF additional >= LSpareCapacity(s)
    THEN LGrowExact(s, additional - LSpareCapacity(s)) ELSE s

\* set_unchecked: index < capacity
LSetUnchecked(s, index, v) ==
    [s EXCEPT !.bits[index] = TRUE,
              !.count = IF s.bits[index] THEN @ ELSE @ + 1,
              !.data[index] = v]

\* push: [vec, idx]
LPushIndex(s) == FirstOne(s.bits, s.flen)
LPush(s, v) ==
    Let(LPushIndex(s), LAMBDA fo:
    IF fo # -1 THEN [vec |-> LSetUnchecked(s, fo, v), idx |-> fo]
    ELSE Let(LGrowAmortized(s, 1), LAMBDA g:
         [vec |-> LSetUnchecked(g, LCapacity(g) - 1, v), idx |-> LCapacity(g) - 1]))

\* set: flags.replace is bounds-checked against flags.len() and panics
\* before anything is written
LSet(s, index, v) ==
    IF index >= s.flen THEN [vec |-> s, ret |-> Uninit, panic |-> TRUE]
    ELSE [vec |-> [s EXCEPT !.bits[index] = TRUE,
                            !.count = IF s.bits[index] THEN @ ELSE @ + 1,
                            !.data[index] = v],
          ret |-> IF s.bits[index] THEN s.data[index] ELSE Uninit,
          panic |-> FALSE]

\* replace: guarded by the capacity, then the raw flag bit is consulted
LReplace(s, index, v) ==
    IF index >= LCapacity(s) THEN [vec |-> s, ret |-> Uninit]
    ELSE IF ~s.bits[index]
         THEN [vec |-> LSetUnchecked([s EXCEPT !.bits[index] = TRUE, !.count = @ + 1],
                                     index, v),
               ret |-> Uninit]
         ELSE [vec |-> LSetUnchecked(s, index, v), ret |-> s.data[index]]

\* remove_unchecked: index < capacity; the value is moved out of the slot
LRemoveUnchecked(s, index) ==
    IF s.bits[index]
    THEN [vec |-> [s EXCEPT !.bits[index] = FALSE, !.count = @ - 1,
                            !.data[index] = Uninit],
          ret |-> s.data[index], some |-> TRUE]
    ELSE [vec |-> s, ret |-> Uninit, some |-> FALSE]

LRemove(s, index) ==
    IF index >= LCapacity(s) THEN [vec |-> s, ret |-> Uninit, some |-> FALSE]
    ELSE LRemoveUnchecked(s, index)

\* swap_unchecked: data slots and raw flag bits are exchanged
LSwapUnchecked(s, a, b) ==
    [s EXCEPT !.data = [@ EXCEPT ![a] = s.data[b], ![b] = s.data[a]],
              !.bits = [@ EXCEPT ![a] = s.bits[b], ![b] = s.bits[a]]]

\* clear: every flagged value is dropped, count = 0, flags.clear() sets the
\* length of the bitmap to 0 (the raw bits stay behind it)
LClear(s) ==
    [s EXCEPT !.data = [i \in DOMAIN s.data |->
                            IF LIsInit(s, i) THEN Uninit ELSE s.data[i]],
              !.count = 0,
              !.flen = 0]

LIsFragmented(s) ==
    LET fz == FirstZero(s.bits, s.flen) IN IF fz = -1 THEN FALSE ELSE fz <= s.count

\* flags[a..b].first_zero(): the index is relative to the start of the subslice
SubFirstZero(bits, a, b) ==
    LET S == {z \in 0..(b - a - 1) : bits[a + z] = FALSE} IN
    IF S = {} THEN -1 ELSE SetMin(S)

\* the while loop of defragment: i scans down, first_uninit is the target
RECURSIVE LDefragLoop(_, _, _, _)
LDefragLoop(s, i, first_uninit, res) ==
    IF ~(i > first_uninit) THEN [vec |-> s, map |-> res]
    ELSE IF s.bits[i]
         THEN Let([s EXCEPT !.data = [@ EXCEPT ![first_uninit] = s.data[i],
                                              ![i] = Uninit],
                           !.bits = [@ EXCEPT ![first_uninit] = TRUE,
                                              ![i] = FALSE]], LAMBDA moved:
              Let(MapInsert(res, i, first_uninit), LAMBDA res2:
              Let(SubFirstZero(moved.bits, first_uninit + 1, i), LAMBDA z:
                 IF z = -1 THEN [vec |-> moved, map |-> res2]
                 ELSE LDefragLoop(moved, i - 1, z, res2))))
         ELSE LDefragLoop(s, i - 1, first_uninit, res)

\* defragment is defined when flags.last_one() exists (unwrap_unchecked)
LDefragDefined(s) ==
    s.count = 0 \/ FirstZero(s.bits, s.flen) = -1 \/ LastOne(s.bits, s.flen) # -1

LDefragment(s) ==
    IF s.count = 0 \/ FirstZero(s.bits, s.flen) = -1 THEN [vec |-> s, map |-> EmptyMap]
    ELSE LDefragLoop(s, LastOne(s.bits, s.flen), FirstZero(s.bits, s.flen), EmptyMap)

\* shrink_to_fit -> shrink(last_one + 1): buffer and bitmap are cut to new_cap
LShrinkToFit(s) ==
    LET lo == LastOne(s.bits, s.flen) IN
    IF lo = -1 \/ LCapacity(s) = 0 THEN s
    ELSE [s EXCEPT !.data = [i \in 0..lo |-> s.data[i]],
                   !.bits = [i \in 0..lo |-> s.bits[i]],
                   !.flen = Min(s.flen, lo + 1)]

LCompress(s) ==
    Let(LDefragment(s), LAMBDA d: [vec |-> LShrinkToFit(d.vec), map |-> d.map])

\* the for loop of extend_from_other over i in from..=last_init;
\* other.flags[i] is a checked index into the other bitmap
RECURSIVE LExtendLoop(_, _, _, _, _)
LExtendLoop(s, o, i, last_init, res) ==
    IF i > last_init THEN [vec |-> s, map |-> res, panic |-> FALSE]
    ELSE IF i >= o.flen THEN [vec |-> s, map |-> res, panic |-> TRUE]
    ELSE IF o.bits[i]
         THEN Let(LPush(s, o.data[i]), LAMBDA p:
              LExtendLoop(p.vec, o, i + 1, last_init, MapInsert(res, i, p.idx)))
         ELSE LExtendLoop(s, o, i + 1, last_init, res)

LExtendFromOther(s, o) ==
    LET last_init == LastOne(s.bits, s.flen) IN
    IF last_init = -1 THEN [vec |-> s, map |-> EmptyMap, panic |-> FALSE]
    ELSE LExtendLoop(LReserveExact(s, LLenInit(o)), o, 0, last_init, EmptyMap)

\* From<Vec<T>> of a vector with capacity == len; as an argument vector, the
\* slots marked Uninit were removed from it
LFrom(vals) ==
    [data |-> vals,
     bits |-> [i \in DOMAIN vals |-> vals[i] # Uninit],
     flen |-> ALen(vals),
     count |-> Cardinality({i \in DOMAIN vals : vals[i] # Uninit})]

Others == UNION {[0..(n - 1) -> Val \cup {Uninit}] : n \in 0..MaxOther}

(* ===================== crate::vec::StableVec (src/vec.rs) ============== *)
(* data     : the allocation of `cap` slots, followed by the one slot right *)
(*            behind it (index cap), the only slot an out-of-bounds write   *)
(*            of this code can reach                                        *)
(* bits     : the raw bits of `flags` for the same indices; 0, 1, or 2 for  *)
(*            a bit that was never written                                  *)
(* flen     : flags.len()                                                   *)
(* cap, init_amt, farthest : the fields (farthest = -1 is None)             *)
(* nil      : the marker of a slot without a live value of this arena       *)

NeverWritten == 2

VNew(nil) ==
    [data |-> Arr(1, nil), bits |-> Arr(1, NeverWritten), flen |-> 0,
     cap |-> 0, init_amt |-> 0, farthest |-> -1, nil |-> nil]

\* stablevec![x0, x1, ..]: from_parts(data, repeat(true, cap), cap, cap, Some(cap))
VMacro(vals, nil) ==
    LET n == ALen(vals) IN
    [data |-> [i \in 0..n |-> IF i < n THEN vals[i] ELSE nil],
     bits |-> [i \in 0..n |-> IF i < n THEN 1 ELSE NeverWritten],
     flen |-> n, cap |-> n, init_amt |-> n, farthest |-> n, nil |-> nil]

\* from_vec / FromIterator: farthest_init = Some(len - 1)
VFromVec(vals, nil) == [VMacro(vals, nil) EXCEPT !.farthest = ALen(vals) - 1]

VSpareCapacity(s) == s.cap - s.init_amt
VLenInit(s) == s.init_amt
VIsInit(s, index) == index < s.flen /\ s.bits[index] = 1
VGet(s, index) == IF VIsInit(s, index) THEN s.data[index] ELSE s.nil

\* the bits below flags.len() as booleans, for first_zero / last_one
VFlags(s) == [i \in 0..(s.flen - 1) |-> s.bits[i] = 1]
VFirstZero(s) == FirstZero(VFlags(s), s.flen)
VLastOne(s) == LastOne(VFlags(s), s.flen)

\* the raw bit read by an _unchecked accessor
RawBit(s, index, o) == IF s.bits[index] = NeverWritten THEN o ELSE s.bits[index]

\* realloc_unchecked: new_cap slots are copied from the old buffer when cap > 0
VRealloc(s, new_cap) ==
    [s EXCEPT !.data = [i \in 0..new_cap |->
                            IF s.cap > 0 /\ i < new_cap /\ i <= s.cap
                            THEN s.data[i] ELSE s.nil],
              !.bits = [i \in 0..new_cap |->
                            IF i <= s.cap THEN s.bits[i] ELSE NeverWritten],
              !.cap = new_cap]

VReserveExact(s, amt) ==
    IF amt - VSpareCapacity(s) <= 0 THEN s
    ELSE VRealloc(s, (amt - VSpareCapacity(s)) + s.cap)

VReserve(s, amt) ==
    IF Max(8, amt) - VSpareCapacity(s) <= 0 THEN s
    ELSE VRealloc(s, s.cap + (Max(8, amt) - VSpareCapacity(s)))

\* remove_at_unchecked
VRemoveAtUnchecked(s, index, o) ==
    IF RawBit(s, index, o) = 1
    THEN Let([s EXCEPT !.bits[index] = 0, !.init_amt = @ - 1,
                       !.data[index] = s.nil], LAMBDA cleared:
         [vec |-> IF s.farthest = index
                  THEN [cleared EXCEPT !.farthest = VLastOne(cleared)] ELSE cleared,
          ret |-> s.data[index], some |-> TRUE])
    ELSE [vec |-> [s EXCEPT !.bits[index] = 0], ret |-> s.nil, some |-> FALSE]

\* set_at_unchecked: a write at index cap lands behind the allocation, where
\* the value survives (keep) or not
VSetAtUnchecked(s, index, v, o, keep) ==
    LET old == RawBit(s, index, o) IN
    [s EXCEPT !.data[index] = IF index >= s.cap /\ ~keep THEN s.nil ELSE v,
              !.bits[index] = 1,
              !.init_amt = IF old = 0 THEN @ + 1 ELSE @,
              !.farthest = IF old = 0 /\ @ # -1 /\ @ < index THEN index ELSE @]

VNextPushIndex(s) ==
    IF VSpareCapacity(s) = 0 THEN s.cap
    ELSE IF VFirstZero(s) = -1 THEN s.cap ELSE VFirstZero(s)

\* push: [vec, idx, ub]; ub = the write went behind the allocation
VPush(s, v, o, keep) ==
    Let(VNextPushIndex(s), LAMBDA idx:
    Let(IF VSpareCapacity(s) = 0 THEN VReserve(s, 1) ELSE s, LAMBDA r:
        [vec |-> VSetAtUnchecked(r, idx, v, o, keep), idx |-> idx, ub |-> idx >= r.cap]))

VRemove(s, index, o) ==
    IF index >= s.cap THEN [vec |-> s, ret |-> s.nil, some |-> FALSE]
    ELSE VRemoveAtUnchecked(s, index, o)

VReplace(s, index, v, o) ==
    IF index >= s.cap THEN [vec |-> s, ret |-> s.nil, some |-> FALSE]
    ELSE IF RawBit(s, index, o) = 0
         THEN [vec |-> [s EXCEPT !.bits[index] = 1, !.init_amt = @ + 1,
                                 !.data[index] = v],
               ret |-> s.nil, some |-> FALSE]
         ELSE [vec |-> [s EXCEPT !.bits[index] = 1, !.data[index] = v],
               ret |-> s.data[index], some |-> TRUE]

\* swap_unchecked: a, b < cap
VSwapUnchecked(s, a, b) ==
    [s EXCEPT !.data = [@ EXCEPT ![a] = s.data[b], ![b] = s.data[a]],
              !.bits = [@ EXCEPT ![a] = s.bits[b], ![b] = s.bits[a]]]

VClear(s) ==
    [s EXCEPT !.data = [i \in DOMAIN s.data |->
                            IF VIsInit(s, i) THEN s.nil ELSE s.data[i]],
              !.init_amt = 0, !.farthest = -1, !.flen = 0]

VIsFragmented(s) ==
    IF VFirstZero(s) = -1 THEN FALSE ELSE VFirstZero(s) <= s.init_amt

\* the while loop of defragment; self.flags[i] is a checked index
RECURSIVE VDefragLoop(_, _, _, _)
VDefragLoop(s, i, first_uninit, res) ==
    IF ~(i > first_uninit) THEN [vec |-> s, moves |-> res, panic |-> FALSE]
    ELSE IF i >= s.flen THEN [vec |-> s, moves |-> res, panic |-> TRUE]
    ELSE IF s.bits[i] = 1
         THEN Let([s EXCEPT !.data = [@ EXCEPT ![first_uninit] = s.data[i],
                                              ![i] = s.nil],
                           !.bits = [@ EXCEPT ![first_uninit] = 1,
                                              ![i] = 0]], LAMBDA moved:
              Let(Append(res, <<i, first_uninit>>), LAMBDA res2:
              Let(SubFirstZero(VFlags(moved), first_uninit + 1, i), LAMBDA z:
                 IF z = -1 THEN [vec |-> moved, moves |-> res2, panic |-> FALSE]
                 ELSE VDefragLoop(moved, i - 1, z, res2))))
         ELSE VDefragLoop(s, i - 1, first_uninit, res)

\* defragment: [vec, moves, panic, under]; moves is the Vec<(from, to)>, under
\* tells that `self.init_amt - 1` was computed with init_amt = 0
VDefragment(s) ==
    IF s.farthest = -1 \/ VFirstZero(s) = -1
    THEN [vec |-> s, moves |-> <<>>, panic |-> FALSE, under |-> FALSE]
    ELSE Let(VDefragLoop(s, s.farthest, VFirstZero(s), <<>>), LAMBDA r:
         IF r.panic THEN [vec |-> r.vec, moves |-> r.moves, panic |-> TRUE, under |-> FALSE]
         ELSE [vec |-> [r.vec EXCEPT !.farthest = s.init_amt - 1], moves |-> r.moves,
               panic |-> FALSE, under |-> s.init_amt = 0])

\* HashMap::from_iter over the moves: a later pair replaces an earlier one
RECURSIVE MapFromMoves(_)
MapFromMoves(moves) ==
    IF moves = <<>> THEN EmptyMap
    ELSE LET n == Len(moves) IN
         MapInsert(MapFromMoves(SubSeq(moves, 1, n - 1)), moves[n][1], moves[n][2])

VCompress(s) ==
    Let(VDefragment(s), LAMBDA d:
    IF d.panic \/ d.under THEN d
    ELSE [d EXCEPT !.vec = VRealloc([d.vec EXCEPT !.flen = Min(@, d.vec.init_amt)],
                                    d.vec.init_amt)])

\* the for loop of extend_from_other over i in 0..=f
RECURSIVE VExtendLoop(_, _, _, _, _, _, _)
VExtendLoop(s, other, i, f, res, o, keep) ==
    IF i > f THEN [vec |-> s, map |-> res.map, ub |-> res.ub, panic |-> FALSE]
    ELSE IF i >= other.flen
         THEN [vec |-> s, map |-> res.map, ub |-> res.ub, panic |-> TRUE]
    ELSE IF other.bits[i] = 1
         THEN Let(VPush(s, other.data[i], o, keep), LAMBDA p:
              VExtendLoop(p.vec, other, i + 1, f,
                          [map |-> MapInsert(res.map, i, p.idx), ub |-> res.ub \/ p.ub],
                          o, keep))
         ELSE VExtendLoop(s, other, i + 1, f, res, o, keep)

VExtendFromOther(s, other, o, keep) ==
    IF other.farthest = -1
    THEN [vec |-> s, map |-> EmptyMap, ub |-> FALSE, panic |-> FALSE]
    ELSE VExtendLoop(VReserveExact(s, VLenInit(other)), other, 0, other.farthest,
                     [map |-> EmptyMap, ub |-> FALSE], o, keep)

(* ========================= Octree (src/tree.rs) ======================== *)
(* proxies, branch_data, leaf_data : crate::vec::StableVec arenas           *)
(* root : index of the root proxy;  height_cache : -1 is None               *)
(* A proxy is [parent, tag, ref]: tag "V" Void, "L" Leaf(ref), "B" Branch(ref) *)

Px(parent, tag, ref) == [parent |-> parent, tag |-> tag, ref |-> ref]
NilProxy == Px(-1, "N", -1)
NilBranch == Arr(8, -1)

\* the oracles of one call: the value read from a never-written flag bit of
\* each arena, and whether a write behind an allocation survives
Oracles == [p : {0, 1}, b : {0, 1}, l : {0, 1}, keep : BOOLEAN]

InMem(s, index) == index \in DOMAIN s.bits

\* Octree::new
TreeNew ==
    [proxies |-> VMacro(Arr(1, Px(0, "V", 0)), NilProxy),
     branch_data |-> VNew(NilBranch),
     leaf_data |-> VNew(Uninit),
     root |-> 0,
     height_cache |-> -1]

\* the result of a call: the tree it leaves, how it ended ("ok", "err",
\* "panic", "ub" for a read of garbage, "blocked" for a lock never granted,
\* "hang" for a loop that never ends, "underflow" for a usize taken below 0),
\* whether it wrote behind an allocation, and what it returned
Res(t, st, ub, ret) == [t |-> t, st |-> st, ub |-> ub, ret |-> ret]

\* n successive pushes of v (push_iter collected): [vec, idxs, ub]
RECURSIVE VPushN(_, _, _, _, _)
VPushN(s, v, n, o, keep) ==
    IF n = 0 THEN [vec |-> s, idxs |-> <<>>, ub |-> FALSE]
    ELSE Let(VPushN(s, v, n - 1, o, keep), LAMBDA r:
         Let(VPush(r.vec, v, o, keep), LAMBDA q:
            [vec |-> q.vec, idxs |-> Append(r.idxs, q.idx), ub |-> r.ub \/ q.ub]))

\* a Vec of 8 indices as a branch record
BranchRec(idxs) == [i \in 0..7 |-> idxs[i + 1]]
\* Vec::insert(at, x)
InsertAt(seq, at, x) == SubSeq(seq, 1, at) \o <<x>> \o SubSeq(seq, at + 1, Len(seq))

SetData(t, target, tag, ref) ==
    [t EXCEPT !.proxies.data[target].tag = tag, !.proxies.data[target].ref = ref]

\* Octree::branch
Branch(t, target, o) ==
    IF ~VIsInit(t.proxies, target) THEN Res(t, "panic", FALSE, <<>>)
    ELSE LET px == t.proxies.data[target] IN
    IF px.tag = "B"
    THEN IF VIsInit(t.branch_data, px.ref)
         THEN Res(t, "ok", FALSE, t.branch_data.data[px.ref])
         ELSE Res(t, "panic", FALSE, <<>>)
    ELSE IF px.tag = "L" THEN Res(t, "err", FALSE, "BranchCollision")
    ELSE Let(VPushN(t.proxies, Px(target, "V", 0), 8, o.p, o.keep), LAMBDA ps:
         Let(VPush(t.branch_data, BranchRec(ps.idxs), o.b, o.keep), LAMBDA bp:
         Let(SetData([t EXCEPT !.proxies = ps.vec, !.branch_data = bp.vec],
                     target, "B", bp.idx), LAMBDA t1:
         Let(ps.ub \/ bp.ub, LAMBDA ub:
            IF t.height_cache # -1 THEN Res(t1, "blocked", ub, <<>>)
            ELSE IF VIsInit(t1.branch_data, bp.idx)
                 THEN Res(t1, "ok", ub, t1.branch_data.data[bp.idx])
                 ELSE Res(t1, "panic", ub, <<>>)))))

\* the while loop of flatten_branch: to_remove is a stack popped from its end
RECURSIVE FlattenLoop(_, _, _, _)
FlattenLoop(t, to_remove, res, o) ==
    IF to_remove = <<>> THEN Res(t, "ok", FALSE, res)
    ELSE LET c == to_remove[Len(to_remove)]
             rest == SubSeq(to_remove, 1, Len(to_remove) - 1)
         IN IF ~InMem(t.proxies, c) THEN Res(t, "ub", FALSE, res)
            ELSE Let(VRemoveAtUnchecked(t.proxies, c, o.p), LAMBDA pr:
                 Let([t EXCEPT !.proxies = pr.vec], LAMBDA t1:
                    IF ~pr.some THEN Res(t1, "panic", FALSE, res)
                    ELSE IF pr.ret.tag = "N" THEN Res(t1, "ub", FALSE, res)
                    ELSE IF pr.ret.tag = "V" THEN FlattenLoop(t1, rest, res, o)
                    ELSE IF pr.ret.tag = "L"
                    THEN IF ~InMem(t1.leaf_data, pr.ret.ref) THEN Res(t1, "ub", FALSE, res)
                         ELSE Let(VRemoveAtUnchecked(t1.leaf_data, pr.ret.ref, o.l),
                                  LAMBDA lr:
                              Let([t1 EXCEPT !.leaf_data = lr.vec], LAMBDA t2:
                                 IF ~lr.some THEN Res(t2, "panic", FALSE, res)
                                 ELSE FlattenLoop(t2, rest, Append(res, lr.ret), o)))
                    ELSE IF ~InMem(t1.branch_data, pr.ret.ref) THEN Res(t1, "ub", FALSE, res)
                         ELSE Let(VRemoveAtUnchecked(t1.branch_data, pr.ret.ref, o.b),
                                  LAMBDA br:
                              Let([t1 EXCEPT !.branch_data = br.vec], LAMBDA t2:
                                 IF ~br.some THEN Res(t2, "panic", FALSE, res)
                                 ELSE IF br.ret = NilBranch THEN Res(t2, "ub", FALSE, res)
                                 ELSE FlattenLoop(t2,
                                          rest \o [i \in 1..8 |-> br.ret[i - 1]], res, o)))))

\* Octree::flatten_branch; new_data is always ProxyData::Void in the callers
flatten_branch(t, target, children_idx, o) ==
    Let(SetData([t EXCEPT !.height_cache = -1], target, "V", 0), LAMBDA t0:
    IF ~InMem(t0.branch_data, children_idx) THEN Res(t0, "ub", FALSE, <<>>)
    ELSE Let(VRemoveAtUnchecked(t0.branch_data, children_idx, o.b), LAMBDA br:
         Let([t0 EXCEPT !.branch_data = br.vec], LAMBDA t1:
            IF ~br.some THEN Res(t1, "panic", FALSE, <<>>)
            ELSE IF br.ret = NilBranch THEN Res(t1, "ub", FALSE, <<>>)
            ELSE FlattenLoop(t1, [i \in 1..8 |-> br.ret[i - 1]], <<>>, o))))

\* Octree::void
Void(t, target, o) ==
    IF ~VIsInit(t.proxies, target) THEN Res(t, "panic", FALSE, <<>>)
    ELSE LET px == t.proxies.data[target] IN
    IF px.tag = "V" THEN Res(t, "ok", FALSE, <<>>)
    ELSE IF px.tag = "L"
    THEN Let(SetData(t, target, "V", 0), LAMBDA t1:
         Let(VRemove(t1.leaf_data, px.ref, o.l), LAMBDA lr:
         Let([t1 EXCEPT !.leaf_data = lr.vec], LAMBDA t2:
            IF lr.some THEN Res(t2, "ok", FALSE, <<lr.ret>>)
            ELSE Res(t2, "panic", FALSE, <<>>))))
    ELSE flatten_branch(t, target, px.ref, o)

\* Octree::set_leaf
SetLeaf(t, target, v, o) ==
    IF ~VIsInit(t.proxies, target) THEN Res(t, "panic", FALSE, <<>>)
    ELSE LET px == t.proxies.data[target] IN
    IF px.tag = "L"
    THEN Let(VReplace(t.leaf_data, px.ref, v, o.l), LAMBDA lr:
         Let([t EXCEPT !.leaf_data = lr.vec], LAMBDA t1:
            IF lr.some THEN Res(t1, "ok", FALSE, <<lr.ret>>)
            ELSE Res(t1, "panic", FALSE, <<>>)))
    ELSE IF px.tag = "V"
    THEN Let(VPush(t.leaf_data, v, o.l, o.keep), LAMBDA lp:
            Res(SetData([t EXCEPT !.leaf_data = lp.vec], target, "L", lp.idx),
                "ok", lp.ub, <<>>))
    ELSE Let(flatten_branch(t, target, px.ref, o), LAMBDA f:
         IF f.st # "ok" THEN f
         ELSE Let(VPush(f.t.leaf_data, v, o.l, o.keep), LAMBDA lp:
                 Res(SetData([f.t EXCEPT !.leaf_data = lp.vec], target, "L", lp.idx),
                     "ok", lp.ub, f.ret)))

\* Octree::grow
Grow(t, oct, o) ==
    LET old_root == t.root
        h == IF t.height_cache # -1 THEN t.height_cache + 1 ELSE -1
    IN Let(VPushN(VReserve(t.proxies, 8), Px(t.root, "V", 0), 7, o.p, o.keep), LAMBDA ps:
       Let(InsertAt(ps.idxs, oct, old_root), LAMBDA children:
       Let(VPush(t.branch_data, BranchRec(children), o.b, o.keep), LAMBDA bp:
       Let(VPush(ps.vec, Px(t.root, "B", bp.idx), o.p, o.keep), LAMBDA rp:
       Let([t EXCEPT !.height_cache = h, !.proxies = rp.vec,
                     !.branch_data = bp.vec, !.root = rp.idx], LAMBDA t1:
       Let(ps.ub \/ bp.ub \/ rp.ub, LAMBDA ub:
          IF ~VIsInit(t1.proxies, old_root) THEN Res(t1, "panic", ub, -1)
          ELSE Res([t1 EXCEPT !.proxies.data[old_root].parent = t1.root],
                   "ok", ub, t1.root)))))))

\* LeafMerge::leaf_merge, instantiated with the maximum of two payloads
leaf_merge(a, b) == Max(a, b)
MergeInto(acc, d) == IF acc = Uninit THEN d ELSE leaf_merge(acc, d)

\* Octree::internal_merge_branch (src/tree/merge.rs): ret is the merged
\* payload, Uninit for None.  MergeChildren is its for loop over the record.
RECURSIVE internal_merge_branch(_, _, _), MergeChildren(_, _, _, _, _)
internal_merge_branch(t, children_idx, o) ==
    IF ~InMem(t.branch_data, children_idx) THEN Res(t, "ub", FALSE, Uninit)
    ELSE Let(VRemoveAtUnchecked(t.branch_data, children_idx, o.b), LAMBDA br:
         Let([t EXCEPT !.branch_data = br.vec], LAMBDA t1:
            IF ~br.some THEN Res(t1, "panic", FALSE, Uninit)
            ELSE IF br.ret = NilBranch THEN Res(t1, "ub", FALSE, Uninit)
            ELSE MergeChildren(t1, br.ret, 0, Uninit, o)))

MergeChildren(t, rec, k, acc, o) ==
    IF k = 8 THEN Res(t, "ok", FALSE, acc)
    ELSE IF ~InMem(t.proxies, rec[k]) THEN Res(t, "ub", FALSE, acc)
    ELSE Let(VRemoveAtUnchecked(t.proxies, rec[k], o.p), LAMBDA pr:
         Let([t EXCEPT !.proxies = pr.vec], LAMBDA t1:
            IF ~pr.some THEN Res(t1, "panic", FALSE, acc)
            ELSE IF pr.ret.tag = "N" THEN Res(t1, "ub", FALSE, acc)
            ELSE IF pr.ret.tag = "V" THEN MergeChildren(t1, rec, k + 1, acc, o)
            ELSE IF pr.ret.tag = "L"
            THEN IF ~InMem(t1.leaf_data, pr.ret.ref) THEN Res(t1, "ub", FALSE, acc)
                 ELSE Let(VRemoveAtUnchecked(t1.leaf_data, pr.ret.ref, o.l), LAMBDA lr:
                      Let([t1 EXCEPT !.leaf_data = lr.vec], LAMBDA t2:
                         IF ~lr.some THEN Res(t2, "panic", FALSE, acc)
                         ELSE MergeChildren(t2, rec, k + 1, MergeInto(acc, lr.ret), o)))
            ELSE Let(internal_merge_branch(t1, pr.ret.ref, o), LAMBDA sub:
                 IF sub.st # "ok" THEN sub
                 ELSE IF sub.ret = Uninit THEN MergeChildren(sub.t, rec, k + 1, acc, o)
                 ELSE MergeChildren(sub.t, rec, k + 1, MergeInto(acc, sub.ret), o))))

\* Octree::merge_branch
MergeBranch(t, branch_idx, o) ==
    IF ~VIsInit(t.proxies, branch_idx) THEN Res(t, "err", FALSE, "InvalidIndex")
    ELSE LET px == t.proxies.data[branch_idx] IN
    IF px.tag # "B" THEN Res(t, "err", FALSE, "NotABranch")
    ELSE Let(internal_merge_branch(t, px.ref, o), LAMBDA m:
         IF m.st # "ok" THEN Res(m.t, m.st, FALSE, "")
         ELSE IF ~VIsInit(m.t.proxies, branch_idx) THEN Res(m.t, "panic", FALSE, "")
         ELSE IF m.ret = Uninit
              THEN Res(SetData(m.t, branch_idx, "V", 0), "err", FALSE, "NoLeafs")
              ELSE Let(VPush(m.t.leaf_data, m.ret, o.l, o.keep), LAMBDA lp:
                   Let(SetData([m.t EXCEPT !.leaf_data = lp.vec],
                               branch_idx, "L", lp.idx), LAMBDA t1:
                      IF VIsInit(t1.leaf_data, lp.idx) THEN Res(t1, "ok", lp.ub, "")
                      ELSE Res(t1, "panic", lp.ub, ""))))

\* HashMap::get with the remap of defragment: a missing key keeps the index
Remap(m, i) == IF i \in DOMAIN m THEN m[i] ELSE i

\* the for loop of Octree::defragment over proxies.as_slice_mut(), slot k
RECURSIVE DefragProxies(_, _, _, _, _)
DefragProxies(t, k, n, p_swaps, maps) ==
    IF k = n THEN Res(t, "ok", FALSE, <<>>)
    ELSE IF ~InMem(t.proxies, k) \/ t.proxies.data[k].tag = "N"
    THEN Res(t, "ub", FALSE, <<>>)
    ELSE Let(t.proxies.data[k], LAMBDA px:
         Let([t EXCEPT !.proxies.data[k].parent = Remap(p_swaps, px.parent)], LAMBDA t1:
            IF px.tag = "V" THEN DefragProxies(t1, k + 1, n, p_swaps, maps)
            ELSE IF px.tag = "L"
            THEN DefragProxies([t1 EXCEPT !.proxies.data[k].ref = Remap(maps.l, px.ref)],
                               k + 1, n, p_swaps, maps)
            ELSE Let(Remap(maps.b, px.ref), LAMBDA b:
                 Let([t1 EXCEPT !.proxies.data[k].ref = b], LAMBDA t2:
                    IF ~VIsInit(t2.branch_data, b) THEN Res(t2, "panic", FALSE, <<>>)
                    ELSE DefragProxies(
                           [t2 EXCEPT !.branch_data.data[b] =
                                [c \in 0..7 |-> Remap(p_swaps, t2.branch_data.data[b][c])]],
                           k + 1, n, p_swaps, maps)))))

\* how a StableVec call that did not return ended
Ended(r) == IF r.panic THEN "panic" ELSE "underflow"

\* Octree::defragment
Defragment(t) ==
    Let(VDefragment(t.proxies), LAMBDA pd:
    IF pd.panic \/ pd.under
    THEN Res([t EXCEPT !.proxies = pd.vec], Ended(pd), FALSE, <<>>)
    ELSE Let(VDefragment(t.leaf_data), LAMBDA ld:
    IF ld.panic \/ ld.under
    THEN Res([t EXCEPT !.proxies = pd.vec, !.leaf_data = ld.vec], Ended(ld), FALSE, <<>>)
    ELSE Let(VDefragment(t.branch_data), LAMBDA bd:
         Let([t EXCEPT !.proxies = pd.vec, !.leaf_data = ld.vec,
                       !.branch_data = bd.vec], LAMBDA t1:
            IF bd.panic \/ bd.under THEN Res(t1, Ended(bd), FALSE, <<>>)
            ELSE IF VIsFragmented(t1.proxies) THEN Res(t1, "panic", FALSE, <<>>)
            ELSE DefragProxies(t1, 0, t1.proxies.init_amt, MapFromMoves(pd.moves),
                               [l |-> MapFromMoves(ld.moves),
                                b |-> MapFromMoves(bd.moves)])))))

\* Octree::compress
Compress(t) ==
    Let(Defragment(t), LAMBDA d:
    IF d.st # "ok" THEN d
    ELSE Let(VCompress(d.t.proxies), LAMBDA pc:
    IF pc.panic \/ pc.under
    THEN Res([d.t EXCEPT !.proxies = pc.vec], Ended(pc), FALSE, <<>>)
    ELSE Let(VCompress(d.t.branch_data), LAMBDA bc:
    IF bc.panic \/ bc.under
    THEN Res([d.t EXCEPT !.proxies = pc.vec, !.branch_data = bc.vec], Ended(bc), FALSE, <<>>)
    ELSE Let(VCompress(d.t.leaf_data), LAMBDA lc:
         Res([d.t EXCEPT !.proxies = pc.vec, !.branch_data = bc.vec, !.leaf_data = lc.vec],
             IF lc.panic \/ lc.under THEN Ended(lc) ELSE "ok", FALSE, <<>>)))))

\* steps a parent walk or a traversal is followed for before it is taken to
\* never end
Fuel == 64

\* Octree::depth_of_unchecked: [st, depth]
RECURSIVE DepthWalk(_, _, _, _)
DepthWalk(t, node, depth, fuel) ==
    IF ~VIsInit(t.proxies, node) THEN [st |-> "panic", depth |-> depth]
    ELSE IF t.proxies.data[node].parent = node THEN [st |-> "ok", depth |-> depth]
    ELSE IF fuel = 0 THEN [st |-> "hang", depth |-> depth]
    ELSE DepthWalk(t, t.proxies.data[node].parent, depth + 1, fuel - 1)

depth_of_unchecked(t, node) == DepthWalk(t, node, 0, Fuel)

\* the for loop of graft_unchecked over the children of one branch record:
\* [t, stack, st]
RECURSIVE GraftChildren(_, _, _, _, _, _)
GraftChildren(t, c_idx, k, stack, d, p_swaps) ==
    IF k = 8 THEN [t |-> t, stack |-> stack, st |-> "ok"]
    ELSE LET ci == t.branch_data.data[c_idx][k] IN
         IF ci \notin DOMAIN p_swaps THEN [t |-> t, stack |-> stack, st |-> "panic"]
         ELSE LET t1 == [t EXCEPT !.branch_data.data[c_idx][k] = p_swaps[ci]] IN
              IF ~VIsInit(t1.proxies, ci) THEN [t |-> t1, stack |-> stack, st |-> "panic"]
              ELSE GraftChildren(t1, c_idx, k + 1,
                                 Append(stack, <<ci, t1.proxies.data[ci], d + 1>>),
                                 d, p_swaps)

\* the while loop of graft_unchecked over node_stack; swaps = [p, l, b]
RECURSIVE GraftLoop(_, _, _, _, _, _)
GraftLoop(t, stack, node, max_depth, swaps, fuel) ==
    IF stack = <<>> THEN Res(t, "ok", FALSE, max_depth)
    ELSE IF fuel = 0 THEN Res(t, "hang", FALSE, max_depth)
    ELSE LET e == stack[Len(stack)]
             rest == SubSeq(stack, 1, Len(stack) - 1)
             i == e[1]
             p == e[2]
             md == Max(max_depth, e[3])
         IN IF i # node /\ (p.parent \notin DOMAIN swaps.p \/ ~VIsInit(t.proxies, i))
            THEN Res(t, "panic", FALSE, md)
            ELSE LET t1 == IF i # node
                           THEN [t EXCEPT !.proxies.data[i].parent = swaps.p[p.parent]]
                           ELSE t
                 IN IF p.tag = "V" THEN GraftLoop(t1, rest, node, md, swaps, fuel - 1)
                    ELSE IF p.tag = "L"
                    THEN IF p.ref \notin DOMAIN swaps.l \/ ~VIsInit(t1.proxies, i)
                         THEN Res(t1, "panic", FALSE, md)
                         ELSE GraftLoop(SetData(t1, i, "L", swaps.l[p.ref]), rest, node,
                                        md, swaps, fuel - 1)
                    ELSE IF p.tag = "B"
                    THEN IF p.ref \notin DOMAIN swaps.b THEN Res(t1, "panic", FALSE, md)
                         ELSE IF ~VIsInit(t1.branch_data, swaps.b[p.ref])
                         THEN Res(t1, "panic", FALSE, md)
                         ELSE LET g == GraftChildren(t1, swaps.b[p.ref], 0, rest, e[3],
                                                     swaps.p)
                              IN IF g.st # "ok" THEN Res(g.t, g.st, FALSE, md)
                                 ELSE IF ~VIsInit(g.t.proxies, i)
                                 THEN Res(g.t, "panic", FALSE, md)
                                 ELSE GraftLoop(SetData(g.t, i, "B", swaps.b[p.ref]),
                                                g.stack, node, md, swaps, fuel - 1)
                    ELSE Res(t1, "ub", FALSE, md)

\* graft_unchecked is written as the chain of its steps, each handed the
\* result of the call before it.

\* the end of graft_unchecked: g is the result of the while loop; the height
\* cache is raised when it holds a value
GraftFinish(g, ub) ==
    IF g.st # "ok" THEN Res(g.t, g.st, ub, 0)
    ELSE Res([g.t EXCEPT !.height_cache = IF @ # -1 THEN Max(@, g.ret) ELSE @],
             "ok", ub, 0)

\* max_depth and node_stack are set up and the loop runs; dw is the result of
\* depth_of_unchecked(node)
GraftDescend(t, node, ub, swaps, dw) ==
    IF dw.st # "ok" THEN Res(t, dw.st, ub, 0)
    ELSE GraftFinish(GraftLoop(t, << <<node, t.proxies.data[node], dw.depth>> >>, node,
                               dw.depth, swaps, Fuel), ub)

\* p_swaps.insert(other.root, node); pe is the result of
\* self.proxies.extend_from_other(other.proxies)
GraftRewire(t, other_root, node, le, be, pe) ==
    IF pe.panic
    THEN Res([t EXCEPT !.proxies = pe.vec], "panic", le.ub \/ be.ub \/ pe.ub, 0)
    ELSE GraftDescend([t EXCEPT !.proxies = pe.vec], node, le.ub \/ be.ub \/ pe.ub,
                      [p |-> MapInsert(pe.map, other_root, node), l |-> le.map,
                       b |-> be.map],
                      depth_of_unchecked([t EXCEPT !.proxies = pe.vec], node))

\* be is the result of self.branch_data.extend_from_other(other.branch_data)
GraftMoveProxies(t, other_root, other_proxies, node, o, le, be) ==
    IF be.panic THEN Res([t EXCEPT !.branch_data = be.vec], "panic", le.ub \/ be.ub, 0)
    ELSE GraftRewire([t EXCEPT !.branch_data = be.vec], other_root, node, le, be,
                     VExtendFromOther(t.proxies, other_proxies, o.p, o.keep))

\* le is the result of self.leaf_data.extend_from_other(other.leaf_data)
GraftMoveBranches(t, other, other_proxies, node, o, le) ==
    IF le.panic THEN Res([t EXCEPT !.leaf_data = le.vec], "panic", le.ub, 0)
    ELSE GraftMoveProxies([t EXCEPT !.leaf_data = le.vec], other.root, other_proxies,
                          node, o, le,
                          VExtendFromOther(t.branch_data, other.branch_data, o.b, o.keep))

\* self.proxies[node].data = o_root.data; orr is the result of
\* other.proxies.remove_at_unchecked(other.root)
GraftTakeRoot(t, other, node, o, orr) ==
    IF ~orr.some \/ ~VIsInit(t.proxies, node) THEN Res(t, "panic", FALSE, 0)
    ELSE GraftMoveBranches(SetData(t, node, orr.ret.tag, orr.ret.ref), other, orr.vec,
                           node, o,
                           VExtendFromOther(t.leaf_data, other.leaf_data, o.l, o.keep))

\* Octree::graft_unchecked
graft_unchecked(t, other, node, o) ==
    GraftTakeRoot(t, other, node, o,
                  VRemoveAtUnchecked(other.proxies, other.root, o.p))

\* Ok(()) of graft
GraftReturn(g) == Res(g.t, g.st, g.ub, "")

\* Octree::graft
Graft(t, other, node, o) ==
    IF ~VIsInit(t.proxies, node) THEN Res(t, "err", FALSE, "InvalidIndex")
    ELSE IF t.proxies.data[node].tag # "B" THEN Res(t, "err", FALSE, "NotAVoid")
    ELSE GraftReturn(graft_unchecked(t, other, node, o))

(* ===================== Octant (src/geom/octant.rs) ===================== *)
(* an octant is its number 0..7: bit 4 is x, bit 2 is y, bit 1 is z         *)

Bit(b) == IF b THEN 1 ELSE 0
\* Octant::new
OctantNew(i, j, k) == Bit(i) * 4 + Bit(j) * 2 + Bit(k)
\* Octant::i, j, k: the masked bit, not shifted down
OctI(oct) == ((oct \div 4) % 2) * 4
OctJ(oct) == ((oct \div 2) % 2) * 2
OctK(oct) == oct % 2
\* a ^ b on the low n bits
RECURSIVE BitXor(_, _, _)
BitXor(a, b, n) ==
    IF n = 0 THEN 0 ELSE ((a + b) % 2) + 2 * BitXor(a \div 2, b \div 2, n - 1)
\* a plausible slip of the mask: 0b011 for 0b111
OctNotLowMask(oct) == BitXor(3, oct, 8)
\* impl Not for Octant: Self(0b111 ^ self.0) on a u8
OctNot(oct) == BitXor(7, oct, 8)
\* Octant::from_center
FromCenter(c, p) == OctantNew(p[1] > c[1], p[2] > c[2], p[3] > c[3])
\* NodePoint + Octant
NpAdd(np, oct) == <<np[1] + OctI(oct), np[2] + OctJ(oct), np[3] + OctK(oct), np[4] + 1>>

(* ============ queries (src/tree/iter.rs, slice.rs, tree.rs) ============ *)

\* Vec::pop on node_stack: [top, rest]; top is <<>> for None, <<frame>> otherwise
PopFrame(stack) ==
    IF stack = <<>> THEN [top |-> <<>>, rest |-> <<>>]
    ELSE [top |-> <<stack[Len(stack)]>>, rest |-> SubSeq(stack, 1, Len(stack) - 1)]

\* LeafIter::next called until it returns None: [st, items]. A frame is
\* <<index of the proxy, octant, node point>>; an item is <<payload, node point>>
RECURSIVE LeafIterRun(_, _, _, _, _)
LeafIterRun(t, curr, stack, items, fuel) ==
    IF curr = <<>> THEN [st |-> "ok", items |-> items]
    ELSE IF fuel = 0 THEN [st |-> "hang", items |-> items]
    ELSE LET prox == t.proxies.data[curr[1][1]]
             oct == curr[1][2]
             np == curr[1][3]
         IN IF prox.tag = "V"
            THEN LeafIterRun(t, PopFrame(stack).top, PopFrame(stack).rest, items, fuel - 1)
            ELSE IF prox.tag = "L"
            THEN IF ~VIsInit(t.leaf_data, prox.ref) THEN [st |-> "panic", items |-> items]
                 ELSE LeafIterRun(t, PopFrame(stack).top, PopFrame(stack).rest,
                                  Append(items, <<t.leaf_data.data[prox.ref], np>>), fuel - 1)
            ELSE IF prox.tag = "B"
            THEN IF ~VIsInit(t.branch_data, prox.ref) THEN [st |-> "panic", items |-> items]
                 ELSE IF ~VIsInit(t.proxies, t.branch_data.data[prox.ref][oct])
                 THEN [st |-> "panic", items |-> items]
                 ELSE LeafIterRun(t, << <<t.branch_data.data[prox.ref][oct], 0, NpAdd(np, oct)>> >>,
                                  IF oct < 7 THEN Append(stack, <<curr[1][1], oct + 1, np>>)
                                  ELSE stack,
                                  items, fuel - 1)
            ELSE [st |-> "ub", items |-> items]

\* Octree::leaf_dfi, collected
LeafDfi(t) ==
    IF ~VIsInit(t.proxies, t.root) THEN [st |-> "panic", items |-> <<>>]
    ELSE LeafIterRun(t, << <<t.root, 0, <<0, 0, 0, 0>> >> >>, <<>>, <<>>, Fuel)

\* NodeIter::next called until it returns None: [st, items]; an item is
\* <<proxy, node point>>, and a Branch is returned each time it is the cursor
RECURSIVE NodeIterRun(_, _, _, _, _)
NodeIterRun(t, curr, stack, items, fuel) ==
    IF curr = <<>> THEN [st |-> "ok", items |-> items]
    ELSE IF fuel = 0 THEN [st |-> "hang", items |-> items]
    ELSE IF t.proxies.data[curr[1][1]].tag \in {"V", "L"}
    THEN NodeIterRun(t, PopFrame(stack).top, PopFrame(stack).rest,
                     Append(items, <<t.proxies.data[curr[1][1]], curr[1][3]>>), fuel - 1)
    ELSE IF t.proxies.data[curr[1][1]].tag # "B" THEN [st |-> "ub", items |-> items]
    ELSE IF ~VIsInit(t.branch_data, t.proxies.data[curr[1][1]].ref)
    THEN [st |-> "panic", items |-> items]
    ELSE IF ~VIsInit(t.proxies,
                     t.branch_data.data[t.proxies.data[curr[1][1]].ref][curr[1][2]])
    THEN [st |-> "panic", items |-> items]
    ELSE NodeIterRun(t,
             << <<t.branch_data.data[t.proxies.data[curr[1][1]].ref][curr[1][2]], 0,
                  NpAdd(curr[1][3], curr[1][2])>> >>,
             IF curr[1][2] < 7
             THEN Append(stack, <<curr[1][1], curr[1][2] + 1, curr[1][3]>>)
             ELSE stack,
             Append(items, <<t.proxies.data[curr[1][1]], curr[1][3]>>), fuel - 1)

\* node_iter, collected: the iterator starts at the root as leaf_dfi does
NodeIter(t) ==
    IF ~VIsInit(t.proxies, t.root) THEN [st |-> "panic", items |-> <<>>]
    ELSE NodeIterRun(t, << <<t.root, 0, <<0, 0, 0, 0>> >> >>, <<>>, <<>>, Fuel)

\* 2^n
RECURSIVE Pow2(_)
Pow2(n) == IF n = 0 THEN 1 ELSE 2 * Pow2(n - 1)

\* the while loop of node_at: vox is the index of the proxy looked at
RECURSIVE NodeAtLoop(_, _, _, _, _, _)
NodeAtLoop(t, psp, idx, vox, s2, fuel) ==
    LET prox == t.proxies.data[vox] IN
    IF prox.tag # "B" \/ s2 = 0 THEN [st |-> "ok", idx |-> idx]
    ELSE IF fuel = 0 THEN [st |-> "hang", idx |-> idx]
    ELSE IF ~VIsInit(t.branch_data, prox.ref) THEN [st |-> "panic", idx |-> idx]
    ELSE LET child == t.branch_data.data[prox.ref][OctantNew(psp[1] > s2, psp[2] > s2,
                                                             psp[3] > s2)]
         IN IF ~VIsInit(t.proxies, child) THEN [st |-> "panic", idx |-> child]
            ELSE NodeAtLoop(t, psp, child, child, s2 \div 2, fuel - 1)

\* Octree::node_at; p is <<x, y, z, w>>
NodeAt(t, p) ==
    IF ~VIsInit(t.proxies, t.root) THEN [st |-> "panic", idx |-> 0]
    ELSE NodeAtLoop(t, <<p[1] * Pow2(p[4]), p[2] * Pow2(p[4]), p[3] * Pow2(p[4])>>, 0,
                    t.root, Pow2(p[4]) \div 2, Fuel)

\* the while loop of node_point_of_unchecked: the octant of a step is made of
\* the child index that was looked for
RECURSIVE NodePointLoop(_, _, _, _)
NodePointLoop(t, index, np, fuel) ==
    IF ~VIsInit(t.proxies, index) THEN [st |-> "panic", np |-> np]
    ELSE LET par == t.proxies.data[index].parent IN
         IF par = index THEN [st |-> "ok", np |-> np]
         ELSE IF fuel = 0 THEN [st |-> "hang", np |-> np]
         ELSE IF ~VIsInit(t.proxies, par) THEN [st |-> "panic", np |-> np]
         ELSE IF t.proxies.data[par].tag # "B" THEN [st |-> "panic", np |-> np]
         ELSE IF ~VIsInit(t.branch_data, t.proxies.data[par].ref)
         THEN [st |-> "panic", np |-> np]
         ELSE IF \A k \in 0..7 : t.branch_data.data[t.proxies.data[par].ref][k] # index
         THEN [st |-> "panic", np |-> np]
         ELSE NodePointLoop(t, par, NpAdd(np, index % 256), fuel - 1)

\* Octree::node_point_of_unchecked
node_point_of_unchecked(t, index) == NodePointLoop(t, index, <<0, 0, 0, 0>>, Fuel)

\* Octree::node_point_of: [st, np]
NodePointOf(t, index) ==
    IF ~VIsInit(t.proxies, index) THEN [st |-> "err", np |-> <<>>]
    ELSE node_point_of_unchecked(t, index)

\* the children of one branch record pushed on the stack of height_from, each
\* with the proxy read through the index operator: [st, stack]
RECURSIVE HeightPush(_, _, _, _, _)
HeightPush(t, rec, k, depth, stack) ==
    IF k = 8 THEN [st |-> "ok", stack |-> stack]
    ELSE IF ~VIsInit(t.proxies, rec[k]) THEN [st |-> "panic", stack |-> stack]
    ELSE HeightPush(t, rec, k + 1, depth, Append(stack, <<rec[k], depth + 1>>))

\* the while loop of height_from: the stack holds <<node, depth>>
RECURSIVE HeightLoop(_, _, _, _)
HeightLoop(t, stack, max_depth, fuel) ==
    IF stack = <<>> THEN Res(t, "ok", FALSE, max_depth)
    ELSE IF fuel = 0 THEN Res(t, "hang", FALSE, max_depth)
    ELSE IF t.proxies.data[stack[Len(stack)][1]].tag # "B"
    THEN HeightLoop(t, SubSeq(stack, 1, Len(stack) - 1),
                    Max(max_depth, stack[Len(stack)][2]), fuel - 1)
    ELSE IF ~VIsInit(t.branch_data, t.proxies.data[stack[Len(stack)][1]].ref)
    THEN Res(t, "panic", FALSE, max_depth)
    ELSE Let(HeightPush(t, t.branch_data.data[t.proxies.data[stack[Len(stack)][1]].ref], 0,
                        stack[Len(stack)][2], SubSeq(stack, 1, Len(stack) - 1)), LAMBDA h:
            IF h.st # "ok" THEN Res(t, h.st, FALSE, max_depth)
            ELSE HeightLoop(t, h.stack, Max(max_depth, stack[Len(stack)][2]), fuel - 1))

\* Octree::height_from
height_from(t, index) ==
    IF ~VIsInit(t.proxies, index) THEN Res(t, "panic", FALSE, 0)
    ELSE HeightLoop(t, << <<index, 0>> >>, 0, Fuel)

\* Octree::height: with an empty cache the write side of the lock is asked
\* for while the read guard of the match scrutinee is still held
Height(t) ==
    IF t.height_cache # -1 THEN Res(t, "ok", FALSE, t.height_cache)
    ELSE Res(t, "blocked", FALSE, -1)

\* the while loop of internal_voxel_at
RECURSIVE VoxelAtLoop(_, _, _, _, _, _)
VoxelAtLoop(t, p, idx, vox, s2, fuel) ==
    IF t.proxies.data[vox].tag # "B" THEN [st |-> "ok", idx |-> idx]
    ELSE IF fuel = 0 THEN [st |-> "hang", idx |-> idx]
    ELSE IF ~VIsInit(t.branch_data, t.proxies.data[vox].ref)
    THEN [st |-> "panic", idx |-> idx]
    ELSE Let(t.branch_data.data[t.proxies.data[vox].ref][
                 OctantNew(p[1] > s2, p[2] > s2, p[3] > s2)], LAMBDA child:
            IF ~VIsInit(t.proxies, child) THEN [st |-> "panic", idx |-> child]
            ELSE VoxelAtLoop(t, p, child, child, s2 \div 2, fuel - 1))

\* Octree::internal_voxel_at
internal_voxel_at(t, p, size) ==
    IF ~VIsInit(t.proxies, t.root) THEN [st |-> "panic", idx |-> 0]
    ELSE VoxelAtLoop(t, p, 0, t.root, size \div 2, Fuel)

\* Octree::voxel_at after grid_size(): h is the result of height(); [st, idx, err]
VoxelAtSized(t, p, h) ==
    IF h.st # "ok" THEN [st |-> h.st, idx |-> -1, err |-> ""]
    ELSE IF p[1] >= Pow2(h.ret) \/ p[2] >= Pow2(h.ret) \/ p[3] >= Pow2(h.ret)
    THEN [st |-> "err", idx |-> -1, err |-> "VoxelOutOfGrid"]
    ELSE Let(internal_voxel_at(t, p, Pow2(h.ret)), LAMBDA r:
            [st |-> r.st, idx |-> r.idx, err |-> ""])

\* Octree::voxel_at
VoxelAt(t, p) == VoxelAtSized(t, p, Height(t))

(* ================== Aabb (src/spatial/bounding_box.rs) ================= *)
(* a point is <<x, y, z>> in quarters of a voxel edge, so that the centers   *)
(* of the boxes the tree works with are whole numbers                        *)

Aabb(mins, maxs) == [mins |-> mins, maxs |-> maxs]

\* Aabb::contains
AabbContains(bb, p) ==
    /\ p[1] >= bb.mins[1] /\ p[2] >= bb.mins[2] /\ p[3] >= bb.mins[3]
    /\ p[1] <= bb.maxs[1] /\ p[2] <= bb.maxs[2] /\ p[3] <= bb.maxs[3]

\* Aabb::center
AabbCenter(bb) ==
    <<(bb.mins[1] + bb.maxs[1]) \div 2, (bb.mins[2] + bb.maxs[2]) \div 2,
      (bb.mins[3] + bb.maxs[3]) \div 2>>

\* Aabb::octant_of
OctantOf(bb, p) == FromCenter(AabbCenter(bb), p)

\* Aabb::parent: along each axis the box grows below its minimum when the
\* octant has the bit of that axis and above its maximum otherwise
AabbParent(bb, oct) ==
    LET v == [k \in 1..3 |-> bb.maxs[k] - bb.mins[k]]
        hi(k) == IF k = 1 THEN OctI(oct) # 0 ELSE IF k = 2 THEN OctJ(oct) # 0
                 ELSE OctK(oct) # 0
    IN Aabb([k \in 1..3 |-> IF hi(k) THEN bb.mins[k] - v[k] ELSE bb.mins[k]],
            [k \in 1..3 |-> IF hi(k) THEN bb.maxs[k] ELSE bb.maxs[k] + v[k]])

\* Aabb::child
AabbChild(bb, oct) ==
    LET c == AabbCenter(bb)
        hi(k) == IF k = 1 THEN OctI(oct) # 0 ELSE IF k = 2 THEN OctJ(oct) # 0
                 ELSE OctK(oct) # 0
    IN Aabb([k \in 1..3 |-> IF hi(k) THEN c[k] ELSE bb.mins[k]],
            [k \in 1..3 |-> IF hi(k) THEN bb.maxs[k] ELSE c[k]])

\* Aabb::child_containing_unchecked
ChildContainingUnchecked(bb, p) ==
    [oct |-> OctantOf(bb, p), aabb |-> AabbChild(bb, OctantOf(bb, p))]

(* ===================== VoxelOctree (src/spatial.rs) ==================== *)
(* the base Octree is kept beside the record [height, voxel_size, aabb]      *)

\* the edge lengths of one voxel
VoxelSize == <<4, 4, 4>>

\* VoxelOctree::new
VoxNew(voxel_size) ==
    [height |-> 0, voxel_size |-> voxel_size, aabb |-> Aabb(<<0, 0, 0>>, voxel_size)]

\* the result of a call on a VoxelOctree: the record and the base it leaves,
\* how it ended, whether it wrote behind an allocation, what it returned
VRes(vo, t, st, ub, ret) == [vo |-> vo, t |-> t, st |-> st, ub |-> ub, ret |-> ret]

\* the end of VoxelOctree::grow: g is the result of self.base.grow(oct)
VoxGrowEnd(vo, g) == VRes(vo, g.t, g.st, g.ub, g.ret)

\* VoxelOctree::grow
VoxGrow(vo, t, oct, o) ==
    VoxGrowEnd([vo EXCEPT !.height = @ + 1, !.aabb = AabbParent(@, oct)], Grow(t, oct, o))

\* the while loop of grow_to_contain; g is the state the last grow left
RECURSIVE GrowLoop(_, _, _, _, _, _)
GrowLoop(g, p, o, grew, ub, fuel) ==
    IF g.st # "ok" THEN VRes(g.vo, g.t, g.st, ub \/ g.ub, grew)
    ELSE IF AabbContains(g.vo.aabb, p) THEN VRes(g.vo, g.t, "ok", ub \/ g.ub, grew)
    ELSE IF fuel = 0 THEN VRes(g.vo, g.t, "hang", ub \/ g.ub, grew)
    ELSE GrowLoop(VoxGrow(g.vo, g.t, OctNot(OctantOf(g.vo.aabb, p)), o), p, o, TRUE,
                  ub \/ g.ub, fuel - 1)

\* VoxelOctree::grow_to_contain
GrowToContain(vo, t, p, o) ==
    IF AabbContains(vo.aabb, p) THEN VRes(vo, t, "ok", FALSE, FALSE)
    ELSE GrowLoop(VoxGrow(vo, t, OctNot(OctantOf(vo.aabb, p)), o), p, o, TRUE, FALSE, Fuel)

\* Octree::get as node_containing_unchecked uses it: the proxy at idx, read
\* through the arena's index operator
OctreeGet(t, idx) ==
    IF VIsInit(t.proxies, idx) THEN [st |-> "ok", prox |-> t.proxies.data[idx]]
    ELSE [st |-> "panic", prox |-> NilProxy]

\* what node_containing returns: how the walk ended and (aabb, idx, prox, depth)
NcRes(st, aabb, idx, prox, depth) ==
    [st |-> st, aabb |-> aabb, idx |-> idx, prox |-> prox, depth |-> depth]

\* the while loop of node_containing_unchecked; g is the result of the last
\* self.base.get(idx)
RECURSIVE NcLoop(_, _, _, _, _, _, _)
NcLoop(t, p, aabb, idx, g, depth, fuel) ==
    IF g.st # "ok" THEN NcRes(g.st, aabb, idx, g.prox, depth)
    ELSE IF g.prox.tag # "B" THEN NcRes("ok", aabb, idx, g.prox, depth)
    ELSE IF fuel = 0 THEN NcRes("hang", aabb, idx, g.prox, depth)
    ELSE IF ~VIsInit(t.branch_data, g.prox.ref) THEN NcRes("panic", aabb, idx, g.prox, depth)
    ELSE NcLoop(t, p, AabbChild(aabb, OctantOf(aabb, p)),
                t.branch_data.data[g.prox.ref][OctantOf(aabb, p)],
                OctreeGet(t, t.branch_data.data[g.prox.ref][OctantOf(aabb, p)]),
                depth + 1, fuel - 1)

\* VoxelOctree::node_containing_unchecked
NodeContainingUnchecked(vo, t, p) ==
    NcLoop(t, p, vo.aabb, t.root, OctreeGet(t, t.root), 0, Fuel)

\* VoxelOctree::node_containing
NodeContaining(vo, t, p) ==
    IF ~AabbContains(vo.aabb, p) THEN NcRes("err", vo.aabb, -1, NilProxy, 0)
    ELSE NodeContainingUnchecked(vo, t, p)

\* Vec::pop as an Option
Pop(seq) == IF seq = <<>> THEN <<>> ELSE <<seq[Len(seq)]>>

\* the end of insert_voxel_at: r is the result of self.base.set_leaf(idx, data)
InsertEnd(vo, idx, ub, r) ==
    VRes(vo, r.t, r.st, ub \/ r.ub, [idx |-> idx, old |-> Pop(r.ret), err |-> ""])

\* the while loop of insert_voxel_at; b is the result of the last
\* self.base.branch(idx), of which the child at oct is followed
RECURSIVE InsertLoop(_, _, _, _, _, _, _, _, _, _)
InsertLoop(vo, p, v, o, aabb, oct, b, depth, ub, fuel) ==
    IF b.st = "err"
    THEN VRes(vo, b.t, "err", ub \/ b.ub, [idx |-> -1, old |-> <<>>, err |-> b.ret])
    ELSE IF b.st # "ok"
    THEN VRes(vo, b.t, b.st, ub \/ b.ub, [idx |-> -1, old |-> <<>>, err |-> ""])
    ELSE IF depth = vo.height
    THEN InsertEnd(vo, b.ret[oct], ub \/ b.ub, SetLeaf(b.t, b.ret[oct], v, o))
    ELSE IF fuel = 0
    THEN VRes(vo, b.t, "hang", ub \/ b.ub, [idx |-> -1, old |-> <<>>, err |-> ""])
    ELSE InsertLoop(vo, p, v, o, AabbChild(aabb, OctantOf(aabb, p)), OctantOf(aabb, p),
                    Branch(b.t, b.ret[oct], o), depth + 1, ub \/ b.ub, fuel - 1)

\* insert_voxel_at after node_containing returned nc
InsertFrom(vo, t, p, v, o, nc) ==
    IF nc.st = "err"
    THEN VRes(vo, t, "err", FALSE, [idx |-> -1, old |-> <<>>, err |-> "PointOutOfBounds"])
    ELSE IF nc.st # "ok"
    THEN VRes(vo, t, nc.st, FALSE, [idx |-> -1, old |-> <<>>, err |-> ""])
    ELSE IF nc.depth = vo.height THEN InsertEnd(vo, nc.idx, FALSE, SetLeaf(t, nc.idx, v, o))
    ELSE InsertLoop(vo, p, v, o, AabbChild(nc.aabb, OctantOf(nc.aabb, p)),
                    OctantOf(nc.aabb, p), Branch(t, nc.idx, o), nc.depth + 1, FALSE, Fuel)

\* VoxelOctree::insert_voxel_at
InsertVoxelAt(vo, t, p, v, o) == InsertFrom(vo, t, p, v, o, NodeContaining(vo, t, p))

(* ============================ state machine ============================ *)

\* largest capacity a crate::vec::StableVec is grown to
MaxVCap == 10
\* largest number of live values pushed into a crate::vec::StableVec
MaxLive == 3
\* largest index handed to remove, replace, set and swap of either vector
MaxIdx == 3
\* largest number of calls made on an object in one behaviour
MaxCalls == 3
\* largest index of a node handed to a tree operation, besides the root
MaxNode == 1
\* largest length of the vector a crate::vec::StableVec is built from
MaxInitLen == 2
\* largest capacity the proxy arena of the tree is grown to
MaxTreeCap == 10

VARIABLES
    focus,  \* which object this behaviour exercises
    sv,     \* the stablevec::StableVec
    vv,     \* the crate::vec::StableVec
    tree,   \* the Octree; the base of the VoxelOctree
    vox,    \* the VoxelOctree beside its base: [height, voxel_size, aabb]
    st,     \* "ok" while calls return; how the last call ended otherwise
    ub,     \* a call has written behind an allocation
    last,   \* the last call: its name, arguments and what it returned
    calls   \* number of calls made

vars == <<focus, sv, vv, tree, vox, st, ub, last, calls>>

Call(op, a, b, v, idx, ret, some, map, err) ==
    [op |-> op, a |-> a, b |-> b, v |-> v, idx |-> idx, ret |-> ret, some |-> some,
     map |-> map, err |-> err]

\* Option<T> as a sequence
Opt(x) == IF x = Uninit THEN <<>> ELSE <<x>>

\* the ways a call that ended as `natural` leaves the program: a usize taken
\* below 0 panics (overflow checks on) or wraps (off); an Err is a return
Ends(natural) ==
    IF natural = "underflow" THEN {"panic", "wrapped"}
    ELSE IF natural = "err" THEN {"ok"}
    ELSE {natural}

VInits ==
    {VNew(Uninit)}
    \cup {VFromVec(vals, Uninit) : vals \in UNION {[0..(n - 1) -> Val] : n \in 1..MaxInitLen}}
    \cup {VMacro(vals, Uninit) : vals \in UNION {[0..(n - 1) -> Val] : n \in 1..MaxInitLen}}

LInits ==
    {LNew} \cup {LFrom(vals) : vals \in UNION {[0..(n - 1) -> Val] : n \in 1..MaxInitLen}}

Init ==
    /\ focus \in {"lib", "vec", "tree"}
    /\ sv \in (IF focus = "lib" THEN LInits ELSE {LNew})
    /\ calls = 0
    /\ vv \in (IF focus = "vec" THEN VInits ELSE {VNew(Uninit)})
    /\ tree = TreeNew
    /\ vox = VoxNew(VoxelSize)
    /\ st = "ok"
    /\ ub = FALSE
    /\ last = Call("new", -1, -1, 0, -1, <<>>, FALSE, EmptyMap, "")

(* ------------------------ stablevec::StableVec ------------------------- *)

LibStep(r_vec, natural, call) ==
    /\ sv' = r_vec
    /\ st' \in Ends(IF r_vec.count < 0 THEN "underflow" ELSE natural)
    /\ last' = call
    /\ calls' = calls + 1
    /\ UNCHANGED <<focus, vv, tree, vox, ub>>

LibPush(v) ==
    /\ focus = "lib" /\ st = "ok" /\ calls < MaxCalls
    /\ LET r == LPush(sv, v) IN
       /\ LCapacity(r.vec) <= MaxCap
       /\ LibStep(r.vec, "ok", Call("push", -1, -1, v, r.idx, <<>>, FALSE, EmptyMap, ""))

LibSet(i, v) ==
    /\ focus = "lib" /\ st = "ok" /\ calls < MaxCalls
    /\ LET r == LSet(sv, i, v) IN
       LibStep(r.vec, IF r.panic THEN "panic" ELSE "ok",
               Call("set", i, -1, v, -1, Opt(r.ret), r.ret # Uninit, EmptyMap, ""))

LibReplace(i, v) ==
    /\ focus = "lib" /\ st = "ok" /\ calls < MaxCalls
    /\ LET r == LReplace(sv, i, v) IN
       LibStep(r.vec, "ok",
               Call("replace", i, -1, v, -1, Opt(r.ret), r.ret # Uninit, EmptyMap, ""))

LibRemove(i) ==
    /\ focus = "lib" /\ st = "ok" /\ calls < MaxCalls
    /\ LET r == LRemove(sv, i) IN
       LibStep(r.vec, "ok", Call("remove", i, -1, 0, -1, Opt(r.ret), r.some, EmptyMap, ""))

LibSwap(a, b) ==
    /\ focus = "lib" /\ st = "ok" /\ calls < MaxCalls
    /\ IF a >= LCapacity(sv) \/ b >= LCapacity(sv)
       THEN LibStep(sv, "panic", Call("swap", a, b, 0, -1, <<>>, FALSE, EmptyMap, ""))
       ELSE LibStep(LSwapUnchecked(sv, a, b), "ok",
                    Call("swap", a, b, 0, -1, <<>>, FALSE, EmptyMap, ""))

LibClear ==
    /\ focus = "lib" /\ st = "ok" /\ calls < MaxCalls
    /\ LibStep(LClear(sv), "ok", Call("clear", -1, -1, 0, -1, <<>>, FALSE, EmptyMap, ""))

LibReserve(n) ==
    /\ focus = "lib" /\ st = "ok" /\ calls < MaxCalls
    /\ LCapacity(LReserve(sv, n)) <= MaxCap
    /\ LibStep(LReserve(sv, n), "ok",
               Call("reserve", n, -1, 0, -1, <<>>, FALSE, EmptyMap, ""))

LibReserveExact(n) ==
    /\ focus = "lib" /\ st = "ok" /\ calls < MaxCalls
    /\ LCapacity(LReserveExact(sv, n)) <= MaxCap
    /\ LibStep(LReserveExact(sv, n), "ok",
               Call("reserve_exact", n, -1, 0, -1, <<>>, FALSE, EmptyMap, ""))

LibDefragment ==
    /\ focus = "lib" /\ st = "ok" /\ calls < MaxCalls
    /\ IF ~LDefragDefined(sv)
       THEN LibStep(sv, "ub", Call("defragment", -1, -1, 0, -1, <<>>, FALSE, EmptyMap, ""))
       ELSE LET r == LDefragment(sv) IN
            LibStep(r.vec, "ok", Call("defragment", -1, -1, 0, -1, <<>>, FALSE, r.map, ""))

LibCompress ==
    /\ focus = "lib" /\ st = "ok" /\ calls < MaxCalls
    /\ IF ~LDefragDefined(sv)
       THEN LibStep(sv, "ub", Call("compress", -1, -1, 0, -1, <<>>, FALSE, EmptyMap, ""))
       ELSE LET r == LCompress(sv) IN
            LibStep(r.vec, "ok", Call("compress", -1, -1, 0, -1, <<>>, FALSE, r.map, ""))

\* as_slice is Some exactly when is_fragmented answers false
LibAsSlice ==
    /\ focus = "lib" /\ st = "ok" /\ calls < MaxCalls
    /\ LibStep(sv, "ok", Call("as_slice", -1, -1, 0, -1, <<>>, ~LIsFragmented(sv),
                              EmptyMap, ""))

\* the argument vector is named by its contents; `b` is its number of slots
LibExtendFromOther(vals) ==
    /\ focus = "lib" /\ st = "ok" /\ calls < MaxCalls
    /\ LET r == LExtendFromOther(sv, LFrom(vals)) IN
       /\ LCapacity(r.vec) <= MaxCap
       /\ LibStep(r.vec, IF r.panic THEN "panic" ELSE "ok",
                  Call("extend_from_other", -1, ALen(vals), 0, -1,
                       [i \in 1..ALen(vals) |-> vals[i - 1]], FALSE, r.map, ""))

(* ------------------------ crate::vec::StableVec ------------------------ *)

VecStep(r_vec, natural, wrote_behind, call) ==
    /\ vv' = r_vec
    /\ st' \in Ends(IF r_vec.init_amt < 0 THEN "underflow" ELSE natural)
    /\ ub' = (ub \/ wrote_behind)
    /\ last' = call
    /\ calls' = calls + 1
    /\ UNCHANGED <<focus, sv, tree, vox>>

VecPush(v, o, keep) ==
    /\ focus = "vec" /\ st = "ok" /\ calls < MaxCalls
    /\ vv.init_amt < MaxLive
    /\ IF VSpareCapacity(vv) < 0
       THEN VecStep(vv, "underflow", FALSE,
                    Call("push", -1, -1, v, -1, <<>>, FALSE, EmptyMap, ""))
       ELSE LET r == VPush(vv, v, o, keep) IN
            /\ r.vec.cap <= MaxVCap
            /\ VecStep(r.vec, "ok", r.ub,
                       Call("push", -1, -1, v, r.idx, <<>>, FALSE, EmptyMap, ""))

VecRemove(i, o) ==
    /\ focus = "vec" /\ st = "ok" /\ calls < MaxCalls
    /\ LET r == VRemove(vv, i, o) IN
       VecStep(r.vec, "ok", FALSE,
               Call("remove", i, -1, 0, -1, Opt(r.ret), r.some, EmptyMap, ""))

VecReplace(i, v, o) ==
    /\ focus = "vec" /\ st = "ok" /\ calls < MaxCalls
    /\ LET r == VReplace(vv, i, v, o) IN
       VecStep(r.vec, "ok", FALSE,
               Call("replace", i, -1, v, -1, Opt(r.ret), r.some, EmptyMap, ""))

VecSwap(a, b) ==
    /\ focus = "vec" /\ st = "ok" /\ calls < MaxCalls
    /\ IF a >= vv.cap \/ b >= vv.cap
       THEN VecStep(vv, "panic", FALSE, Call("swap", a, b, 0, -1, <<>>, FALSE, EmptyMap, ""))
       ELSE VecStep(VSwapUnchecked(vv, a, b), "ok", FALSE,
                    Call("swap", a, b, 0, -1, <<>>, FALSE, EmptyMap, ""))

VecClear ==
    /\ focus = "vec" /\ st = "ok" /\ calls < MaxCalls
    /\ VecStep(VClear(vv), "ok", FALSE,
               Call("clear", -1, -1, 0, -1, <<>>, FALSE, EmptyMap, ""))

VecReserve(n) ==
    /\ focus = "vec" /\ st = "ok" /\ calls < MaxCalls
    /\ IF VSpareCapacity(vv) < 0
       THEN VecStep(vv, "underflow", FALSE,
                    Call("reserve", n, -1, 0, -1, <<>>, FALSE, EmptyMap, ""))
       ELSE /\ VReserve(vv, n).cap <= MaxVCap
            /\ VecStep(VReserve(vv, n), "ok", FALSE,
                       Call("reserve", n, -1, 0, -1, <<>>, FALSE, EmptyMap, ""))

VecDefragment ==
    /\ focus = "vec" /\ st = "ok" /\ calls < MaxCalls
    /\ LET r == VDefragment(vv) IN
       VecStep(r.vec, IF r.panic \/ r.under THEN Ended(r) ELSE "ok", FALSE,
               Call("defragment", -1, -1, 0, -1, r.moves, FALSE, MapFromMoves(r.moves), ""))

VecCompress ==
    /\ focus = "vec" /\ st = "ok" /\ calls < MaxCalls
    /\ LET r == VCompress(vv) IN
       VecStep(r.vec, IF r.panic \/ r.under THEN Ended(r) ELSE "ok", FALSE,
               Call("compress", -1, -1, 0, -1, r.moves, FALSE, MapFromMoves(r.moves), ""))

\* as_slice is Some exactly when is_fragmented answers false
VecAsSlice ==
    /\ focus = "vec" /\ st = "ok" /\ calls < MaxCalls
    /\ VecStep(vv, "ok", FALSE, Call("as_slice", -1, -1, 0, -1, <<>>, ~VIsFragmented(vv),
                                     EmptyMap, ""))

\* the argument vector is built by from_vec and named by its contents
VecExtendFromOther(vals, o, keep) ==
    /\ focus = "vec" /\ st = "ok" /\ calls < MaxCalls
    /\ vv.init_amt + ALen(vals) <= MaxLive
    /\ IF VSpareCapacity(vv) < 0
       THEN VecStep(vv, "underflow", FALSE,
                    Call("extend_from_other", -1, ALen(vals), 0, -1, <<>>, FALSE, EmptyMap, ""))
       ELSE LET r == VExtendFromOther(vv, VFromVec(vals, Uninit), o, keep) IN
            /\ r.vec.cap <= MaxVCap
            /\ VecStep(r.vec, IF r.panic THEN "panic" ELSE "ok", r.ub,
                       Call("extend_from_other", -1, ALen(vals), 0, -1,
                            [i \in 1..ALen(vals) |-> vals[i - 1]], FALSE, r.map, ""))

(* -------------------------------- Octree ------------------------------- *)

\* the trees handed to graft: a fresh tree, and a fresh tree whose root was
\* made a leaf
OtherTrees ==
    {TreeNew} \cup {SetLeaf(TreeNew, 0, v, [p |-> 0, b |-> 0, l |-> 0, keep |-> TRUE]).t :
                        v \in Val}

\* node indices handed to the tree operations
Nodes == (0..MaxNode) \cup {tree.root}

Underflown(t) ==
    t.proxies.init_amt < 0 \/ t.branch_data.init_amt < 0 \/ t.leaf_data.init_amt < 0

TreeStep(r, call) ==
    /\ r.t.proxies.cap <= MaxTreeCap
    /\ tree' = r.t
    /\ st' \in Ends(IF Underflown(r.t) THEN "underflow" ELSE r.st)
    /\ ub' = (ub \/ r.ub)
    /\ last' = call
    /\ calls' = calls + 1
    /\ UNCHANGED <<focus, sv, vv, vox>>

TreeBranch(target, o) ==
    /\ focus = "tree" /\ st = "ok" /\ calls < MaxCalls
    /\ LET r == Branch(tree, target, o) IN
       TreeStep(r, Call("branch", target, -1, 0, -1,
                        IF r.st = "ok" THEN [i \in 1..8 |-> r.ret[i - 1]] ELSE <<>>,
                        FALSE, EmptyMap, IF r.st = "err" THEN r.ret ELSE ""))

TreeVoid(target, o) ==
    /\ focus = "tree" /\ st = "ok" /\ calls < MaxCalls
    /\ LET r == Void(tree, target, o) IN
       TreeStep(r, Call("void", target, -1, 0, -1, r.ret, FALSE, EmptyMap, ""))

TreeSetLeaf(target, v, o) ==
    /\ focus = "tree" /\ st = "ok" /\ calls < MaxCalls
    /\ LET r == SetLeaf(tree, target, v, o) IN
       TreeStep(r, Call("set_leaf", target, -1, v, -1, r.ret, FALSE, EmptyMap, ""))

TreeGrow(oct, o) ==
    /\ focus = "tree" /\ st = "ok" /\ calls < MaxCalls
    /\ LET r == Grow(tree, oct, o) IN
       TreeStep(r, Call("grow", oct, tree.root, 0, r.ret, <<>>, FALSE, EmptyMap, ""))

TreeMergeBranch(target, o) ==
    /\ focus = "tree" /\ st = "ok" /\ calls < MaxCalls
    /\ LET r == MergeBranch(tree, target, o) IN
       TreeStep(r, Call("merge_branch", target, -1, 0, -1, <<>>, FALSE, EmptyMap, r.ret))

\* the tree handed over is kept in `ret`
TreeGraft(other, node, o) ==
    /\ focus = "tree" /\ st = "ok" /\ calls < MaxCalls
    /\ LET r == Graft(tree, other, node, o) IN
       TreeStep(r, Call("graft", node, -1, 0, -1, <<other>>, FALSE, EmptyMap, r.ret))

TreeDefragment ==
    /\ focus = "tree" /\ st = "ok" /\ calls < MaxCalls
    /\ TreeStep(Defragment(tree),
                Call("defragment", -1, -1, 0, -1, <<>>, FALSE, EmptyMap, ""))

TreeCompress ==
    /\ focus = "tree" /\ st = "ok" /\ calls < MaxCalls
    /\ TreeStep(Compress(tree), Call("compress", -1, -1, 0, -1, <<>>, FALSE, EmptyMap, ""))

(* ---------------------------- Octree queries --------------------------- *)

\* the node points handed to node_at
NodePoints == {<<0, 0, 0, 0>>, <<0, 0, 0, 1>>, <<1, 1, 1, 1>>, <<0, 0, 0, 5>>}

QueryStep(natural, call) ==
    /\ st' = natural
    /\ last' = call
    /\ calls' = calls + 1
    /\ UNCHANGED <<focus, sv, vv, tree, vox, ub>>

TreeLeafDfi ==
    /\ focus \in {"tree", "voxel"} /\ st = "ok" /\ calls < MaxCalls
    /\ \E r \in {LeafDfi(tree)} :
          QueryStep(r.st, Call("leaf_dfi", -1, -1, 0, -1, r.items, FALSE, EmptyMap, ""))

TreeNodeIter ==
    /\ focus = "tree" /\ st = "ok" /\ calls < MaxCalls
    /\ \E r \in {NodeIter(tree)} :
          QueryStep(r.st, Call("node_iter", -1, -1, 0, -1, r.items, FALSE, EmptyMap, ""))

TreeNodeAt(p) ==
    /\ focus = "tree" /\ st = "ok" /\ calls < MaxCalls
    /\ \E r \in {NodeAt(tree, p)} :
          QueryStep(r.st, Call("node_at", p, -1, 0, r.idx, <<>>, FALSE, EmptyMap, ""))

TreeNodePointOf(index) ==
    /\ focus = "tree" /\ st = "ok" /\ calls < MaxCalls
    /\ \E r \in {NodePointOf(tree, index)} :
          QueryStep(IF r.st = "err" THEN "ok" ELSE r.st,
                    Call("node_point_of", index, -1, 0, -1, r.np, FALSE, EmptyMap,
                         IF r.st = "err" THEN "InvalidIndex" ELSE ""))

\* the voxel points handed to voxel_at
VoxelPoints == {<<0, 0, 0>>, <<1, 0, 0>>, <<1, 1, 1>>, <<2, 0, 0>>}

TreeHeight ==
    /\ focus = "tree" /\ st = "ok" /\ calls < MaxCalls
    /\ \E r \in {Height(tree)} :
          QueryStep(r.st, Call("height", -1, -1, 0, r.ret, <<>>, FALSE, EmptyMap, ""))

TreeVoxelAt(p) ==
    /\ focus = "tree" /\ st = "ok" /\ calls < MaxCalls
    /\ \E r \in {VoxelAt(tree, p)} :
          QueryStep(IF r.st = "err" THEN "ok" ELSE r.st,
                    Call("voxel_at", p, -1, 0, r.idx, <<>>, FALSE, EmptyMap, r.err))

(* ----------------------------- VoxelOctree ----------------------------- *)

\* the points handed to the VoxelOctree: inside the first voxel, on its far
\* corner, half a voxel below it along x, and one and three voxels above it
Points == {<<2, 2, 2>>, <<4, 4, 4>>, <<-2, 2, 2>>, <<6, 2, 2>>, <<14, 2, 2>>}

VoxStep(r, call) ==
    /\ r.t.proxies.cap <= MaxTreeCap
    /\ tree' = r.t
    /\ vox' = r.vo
    /\ st' \in Ends(IF Underflown(r.t) THEN "underflow" ELSE r.st)
    /\ ub' = (ub \/ r.ub)
    /\ last' = call
    /\ calls' = calls + 1
    /\ UNCHANGED <<focus, sv, vv>>

VoxGrowToContain(p, o) ==
    /\ focus = "voxel" /\ st = "ok" /\ calls < MaxCalls
    /\ \E r \in {GrowToContain(vox, tree, p, o)} :
          VoxStep(r, Call("grow_to_contain", p, -1, 0, -1, <<>>, r.ret, EmptyMap, ""))

\* VoxelOctree::grow called by the owner
VoxGrowCall(oct, o) ==
    /\ focus = "voxel" /\ st = "ok" /\ calls < MaxCalls
    /\ \E r \in {VoxGrow(vox, tree, oct, o)} :
          VoxStep(r, Call("vox_grow", oct, -1, 0, r.ret, <<>>, FALSE, EmptyMap, ""))

VoxNodeContaining(p) ==
    /\ focus = "voxel" /\ st = "ok" /\ calls < MaxCalls
    /\ \E r \in {NodeContaining(vox, tree, p)} :
          QueryStep(IF r.st = "err" THEN "ok" ELSE r.st,
                    Call("node_containing", p, -1, 0, r.idx,
                         IF r.st = "ok" THEN <<r.aabb, r.prox, r.depth>> ELSE <<>>,
                         FALSE, EmptyMap,
                         IF r.st = "err" THEN "PointOutOfBounds" ELSE ""))

VoxInsertVoxelAt(p, v, o) ==
    /\ focus = "voxel" /\ st = "ok" /\ calls < MaxCalls
    /\ \E r \in {InsertVoxelAt(vox, tree, p, v, o)} :
          VoxStep(r, Call("insert_voxel_at", p, -1, v, r.ret.idx, r.ret.old,
                          r.ret.old # <<>>, EmptyMap, r.ret.err))

(* --------------------------------- Next -------------------------------- *)

Next ==
    \/ \E v \in Val : LibPush(v)
    \/ \E i \in 0..MaxIdx, v \in Val : LibSet(i, v)
    \/ \E i \in 0..MaxIdx, v \in Val : LibReplace(i, v)
    \/ \E i \in 0..MaxIdx : LibRemove(i)
    \/ \E a, b \in 0..MaxIdx : LibSwap(a, b)
    \/ LibClear
    \/ \E n \in 0..2 : LibReserve(n)
    \/ \E n \in 0..2 : LibReserveExact(n)
    \/ LibDefragment
    \/ LibCompress
    \/ LibAsSlice
    \/ \E vals \in Others : LibExtendFromOther(vals)
    \/ \E v \in Val, o \in {0, 1}, keep \in BOOLEAN : VecPush(v, o, keep)
    \/ \E i \in 0..MaxIdx, o \in {0, 1} : VecRemove(i, o)
    \/ \E i \in 0..MaxIdx, v \in Val, o \in {0, 1} : VecReplace(i, v, o)
    \/ \E a, b \in 0..MaxIdx : VecSwap(a, b)
    \/ VecClear
    \/ \E n \in 0..2 : VecReserve(n)
    \/ VecDefragment
    \/ VecCompress
    \/ VecAsSlice
    \/ \E vals \in UNION {[0..(n - 1) -> Val] : n \in 1..MaxInitLen}, o \in {0, 1},
          keep \in BOOLEAN : VecExtendFromOther(vals, o, keep)
    \/ \E target \in Nodes, o \in Oracles : TreeBranch(target, o)
    \/ \E target \in Nodes, o \in Oracles : TreeVoid(target, o)
    \/ \E target \in Nodes, v \in Val, o \in Oracles : TreeSetLeaf(target, v, o)
    \/ \E oct \in 0..7, o \in Oracles : TreeGrow(oct, o)
    \/ \E target \in Nodes, o \in Oracles : TreeMergeBranch(target, o)
    \/ \E other \in OtherTrees, node \in Nodes, o \in Oracles : TreeGraft(other, node, o)
    \/ TreeDefragment
    \/ TreeCompress

Spec == Init /\ [][Next]_vars

\* the Octree with its queries, and the VoxelOctree over it
TreeInit ==
    /\ focus \in {"tree", "voxel"}
    /\ sv = LNew
    /\ calls = 0
    /\ vv = VNew(Uninit)
    /\ tree = TreeNew
    /\ vox = VoxNew(VoxelSize)
    /\ st = "ok"
    /\ ub = FALSE
    /\ last = Call("new", -1, -1, 0, -1, <<>>, FALSE, EmptyMap, "")

TreeNext ==
    \/ \E target \in Nodes, o \in Oracles : TreeBranch(target, o)
    \/ \E target \in Nodes, o \in Oracles : TreeVoid(target, o)
    \/ \E target \in Nodes, v \in Val, o \in Oracles : TreeSetLeaf(target, v, o)
    \/ \E oct \in 0..7, o \in Oracles : TreeGrow(oct, o)
    \/ \E target \in Nodes, o \in Oracles : TreeMergeBranch(target, o)
    \/ \E other \in OtherTrees, node \in Nodes, o \in Oracles : TreeGraft(other, node, o)
    \/ TreeDefragment
    \/ TreeCompress
    \/ TreeLeafDfi
    \/ \E p \in NodePoints : TreeNodeAt(p)
    \/ \E index \in Nodes : TreeNodePointOf(index)
    \/ TreeNodeIter
    \/ TreeHeight
    \/ \E p \in VoxelPoints : TreeVoxelAt(p)
    \/ \E p \in Points, o \in Oracles : VoxGrowToContain(p, o)
    \/ \E oct \in {0, 7}, o \in Oracles : VoxGrowCall(oct, o)
    \/ \E p \in Points : VoxNodeContaining(p)
    \/ \E p \in Points, v \in Val, o \in Oracles : VoxInsertVoxelAt(p, v, o)

TreeSpec == TreeInit /\ [][TreeNext]_vars

(* ------------------------------- Octant -------------------------------- *)

\* the centers an octant is taken about
Centers == {<<2, 2, 2>>, <<0, 0, 0>>, <<4, 4, 4>>}

OctStep(call) ==
    /\ focus = "octant" /\ calls < MaxCalls
    /\ last' = call
    /\ calls' = calls + 1
    /\ UNCHANGED <<focus, sv, vv, tree, vox, st, ub>>

\* !oct
OctantNot(oct) ==
    OctStep(Call("not", oct, -1, 0, OctNot(oct), <<>>, FALSE, EmptyMap, ""))

\* Octant::new(i, j, k)
OctantNewCall(i, j, k) ==
    OctStep(Call("octant_new", <<i, j, k>>, -1, 0, OctantNew(i, j, k), <<>>, FALSE,
                 EmptyMap, ""))

\* oct.i(), oct.j(), oct.k()
OctantVector(oct) ==
    OctStep(Call("vector", oct, -1, 0, -1, <<OctI(oct), OctJ(oct), OctK(oct)>>, FALSE,
                 EmptyMap, ""))

\* Octant::from_center(center, point)
OctantFromCenter(c, p) ==
    OctStep(Call("from_center", c, p, 0, FromCenter(c, p), <<>>, FALSE, EmptyMap, ""))

OctInit ==
    /\ focus = "octant"
    /\ sv = LNew
    /\ calls = 0
    /\ vv = VNew(Uninit)
    /\ tree = TreeNew
    /\ vox = VoxNew(VoxelSize)
    /\ st = "ok"
    /\ ub = FALSE
    /\ last = Call("new", -1, -1, 0, -1, <<>>, FALSE, EmptyMap, "")

OctNext ==
    \/ \E oct \in 0..7 : OctantNot(oct)
    \/ \E i, j, k \in BOOLEAN : OctantNewCall(i, j, k)
    \/ \E oct \in 0..7 : OctantVector(oct)
    \/ \E c \in Centers, p \in Points : OctantFromCenter(c, p)

OctSpec == OctInit /\ [][OctNext]_vars

(* ================================ claims =============================== *)

\* the indices is_init answers true for
LInitSet(s) == {i \in DOMAIN s.bits : LIsInit(s, i)}
VInitSet(s) == {i \in DOMAIN s.bits : VIsInit(s, i)}
\* the slots below the capacity that is_init answers false for
LFreeSet(s) == {i \in 0..(LCapacity(s) - 1) : ~LIsInit(s, i)}
VFreeSet(s) == {i \in 0..(s.cap - 1) : ~VIsInit(s, i)}
\* where a value at old index i is after a call that returned the map m
Moved(m, i) == IF i \in DOMAIN m THEN m[i] ELSE i

\* a call on the tree has returned (Ok or Err) and the tree is usable
TreeOk == focus = "tree" /\ st = "ok"

\* C1: root sentinel - after any sequence of tree calls that returned, the
\* proxy at index root is initialized, its parent is root itself, and no
\* other initialized proxy is its own parent.
C1_RootSentinel ==
    TreeOk =>
        /\ VIsInit(tree.proxies, tree.root)
        /\ tree.proxies.data[tree.root].parent = tree.root
        /\ \A i \in VInitSet(tree.proxies) :
               i # tree.root => tree.proxies.data[i].parent # i

\* C2: parent/child consistency - after any sequence of tree calls that
\* returned, every initialized proxy p other than the root has a parent that
\* is an initialized Branch proxy whose initialized branch record contains the
\* index of p exactly once.
C2_ParentChild ==
    TreeOk =>
        \A i \in VInitSet(tree.proxies) \ {tree.root} :
            LET par == tree.proxies.data[i].parent IN
            /\ VIsInit(tree.proxies, par)
            /\ tree.proxies.data[par].tag = "B"
            /\ VIsInit(tree.branch_data, tree.proxies.data[par].ref)
            /\ Cardinality({k \in 0..7 :
                   tree.branch_data.data[tree.proxies.data[par].ref][k] = i}) = 1

\* C3: arena integrity - after any sequence of tree calls that returned,
\* every initialized Leaf(l) proxy references an initialized leaf slot and
\* every initialized Branch(b) proxy references an initialized branch record
\* whose 8 entries are indices of initialized proxies.
C3_ArenaIntegrity ==
    TreeOk =>
        \A i \in VInitSet(tree.proxies) :
            LET px == tree.proxies.data[i] IN
            /\ px.tag = "L" => VIsInit(tree.leaf_data, px.ref)
            /\ px.tag = "B" =>
                   /\ VIsInit(tree.branch_data, px.ref)
                   /\ \A k \in 0..7 :
                          VIsInit(tree.proxies, tree.branch_data.data[px.ref][k])

\* the call made by this step is a push, set, replace or remove that returned
IndexedCallReturned ==
    /\ last'.op \in {"push", "set", "replace", "remove"}
    /\ st' = "ok"

\* C4: index permanence - a push, set, replace or remove that does not name
\* index i leaves the value stored at i in place: get(i) returns the same
\* value after the call as before it.
C4_IndexPermanence ==
    [][IndexedCallReturned =>
        /\ focus = "lib" =>
               \A i \in LInitSet(sv) :
                   i # last'.a => LIsInit(sv', i) /\ LGet(sv', i) = LGet(sv, i)
        /\ focus = "vec" =>
               \A i \in VInitSet(vv) :
                   i # last'.a => VIsInit(vv', i) /\ VGet(vv', i) = VGet(vv, i)]_vars

\* C5: push(v) that returned wrote v to the lowest uninitialized slot below
\* the capacity, and grew the buffer to use a new slot only when there was
\* none; the returned index was uninitialized before and len_init grew by 1.
C5_PushLowestFree ==
    [][(last'.op = "push" /\ st' = "ok") =>
        /\ focus = "lib" =>
               /\ LFreeSet(sv) # {} =>
                      last'.idx = SetMin(LFreeSet(sv)) /\ LCapacity(sv') = LCapacity(sv)
               /\ LFreeSet(sv) = {} =>
                      last'.idx >= LCapacity(sv) /\ LCapacity(sv') > LCapacity(sv)
               /\ ~LIsInit(sv, last'.idx)
               /\ LGet(sv', last'.idx) = last'.v
               /\ LLenInit(sv') = LLenInit(sv) + 1
        /\ focus = "vec" =>
               /\ VFreeSet(vv) # {} => last'.idx = SetMin(VFreeSet(vv)) /\ vv'.cap = vv.cap
               /\ VFreeSet(vv) = {} => last'.idx >= vv.cap /\ vv'.cap > vv.cap
               /\ ~VIsInit(vv, last'.idx)
               /\ VGet(vv', last'.idx) = last'.v
               /\ VLenInit(vv') = VLenInit(vv) + 1]_vars

\* C6: defragment that returned left exactly the indices [0, len_init)
\* initialized, len_init unchanged, and every value stored before the call
\* stored exactly once: at map[i] when its old index i is a key of the map,
\* at i otherwise.
C6_DefragmentCompacts ==
    [][(last'.op = "defragment" /\ st' = "ok") =>
        /\ focus = "lib" =>
               /\ LLenInit(sv') = LLenInit(sv)
               /\ LInitSet(sv') = 0..(LLenInit(sv') - 1)
               /\ \A i \in LInitSet(sv) : LGet(sv', Moved(last'.map, i)) = LGet(sv, i)
               /\ \A i, j \in LInitSet(sv) :
                      i # j => Moved(last'.map, i) # Moved(last'.map, j)
        /\ focus = "vec" =>
               /\ VLenInit(vv') = VLenInit(vv)
               /\ VInitSet(vv') = 0..(VLenInit(vv') - 1)
               /\ \A i \in VInitSet(vv) : VGet(vv', Moved(last'.map, i)) = VGet(vv, i)
               /\ \A i, j \in VInitSet(vv) :
                      i # j => Moved(last'.map, i) # Moved(last'.map, j)]_vars

\* the initialized indices of the vector handed to extend_from_other
OtherInit == {i \in 0..(last'.b - 1) : last'.ret[i + 1] # Uninit}

\* C7: extend_from_other(other) that returned gave a map with exactly one
\* entry per initialized index of other, whose targets are pairwise distinct
\* slots that were uninitialized in self and now hold other's values, and left
\* the values self held before unchanged - also when self is empty or shorter
\* than other.
C7_ExtendMovesAll ==
    [][(last'.op = "extend_from_other" /\ st' = "ok") =>
        /\ DOMAIN last'.map = OtherInit
        /\ \A i, j \in OtherInit : i # j => last'.map[i] # last'.map[j]
        /\ focus = "lib" =>
               /\ \A i \in OtherInit :
                      /\ ~LIsInit(sv, last'.map[i])
                      /\ LGet(sv', last'.map[i]) = last'.ret[i + 1]
               /\ \A i \in LInitSet(sv) : LGet(sv', i) = LGet(sv, i)
        /\ focus = "vec" =>
               /\ \A i \in OtherInit :
                      /\ ~VIsInit(vv, last'.map[i])
                      /\ VGet(vv', last'.map[i]) = last'.ret[i + 1]
               /\ \A i \in VInitSet(vv) : VGet(vv', i) = VGet(vv, i)]_vars

\* C8: bookkeeping - after any sequence of calls that returned, the flag
\* bitmap is as long as the data buffer (also after clear, which keeps the
\* capacity), slot i holds a value exactly when flags[i] is set, and count is
\* the number of set flags.
C8_Bookkeeping ==
    (focus = "lib" /\ st = "ok") =>
        /\ sv.flen = LCapacity(sv)
        /\ \A i \in 0..(LCapacity(sv) - 1) : (sv.data[i] # Uninit) <=> LIsInit(sv, i)
        /\ sv.count = Cardinality(LInitSet(sv))

\* C9: grow(oct) that returned gave the index of a newly allocated proxy that
\* is now root, whose data is an initialized branch record with the old root
\* at position oct and seven distinct freshly allocated Void proxies at the
\* other positions; the data of every node that existed before is unchanged.
C9_Grow ==
    [][(last'.op = "grow" /\ st' = "ok") =>
        LET new_root == tree'.root
            px == tree'.proxies.data[new_root]
            rec == tree'.branch_data.data[px.ref]
            sibs == {rec[k] : k \in (0..7) \ {last'.a}}
        IN /\ last'.idx = new_root
           /\ ~VIsInit(tree.proxies, new_root)
           /\ VIsInit(tree'.proxies, new_root)
           /\ px.tag = "B"
           /\ ~VIsInit(tree.branch_data, px.ref)
           /\ VIsInit(tree'.branch_data, px.ref)
           /\ rec[last'.a] = tree.root
           /\ Cardinality(sibs) = 7
           /\ \A c \in sibs :
                  /\ c \notin {new_root, tree.root}
                  /\ ~VIsInit(tree.proxies, c)
                  /\ VIsInit(tree'.proxies, c)
                  /\ tree'.proxies.data[c].tag = "V"
           /\ \A i \in VInitSet(tree.proxies) :
                  /\ VIsInit(tree'.proxies, i)
                  /\ tree'.proxies.data[i].tag = tree.proxies.data[i].tag
                  /\ tree'.proxies.data[i].ref = tree.proxies.data[i].ref
           /\ \A l \in VInitSet(tree.leaf_data) : VGet(tree'.leaf_data, l) = VGet(tree.leaf_data, l)
           /\ \A b \in VInitSet(tree.branch_data) :
                  VGet(tree'.branch_data, b) = VGet(tree.branch_data, b)]_vars

\* the initialized counts of the three arenas
Counts(t) == <<VLenInit(t.proxies), VLenInit(t.branch_data), VLenInit(t.leaf_data)>>

\* C10: branch(x) on a Void x returns, and void(x) right after it returns no
\* payload, frees the 8 children and the branch record, leaves x initialized
\* and Void with its parent unchanged, and restores the initialized counts of
\* the three arenas (1 proxy for a fresh tree).
C10_BranchThenVoid ==
    [][(last'.op = "branch" /\ VIsInit(tree.proxies, last'.a)
            /\ tree.proxies.data[last'.a].tag = "V") =>
        /\ st' = "ok"
        /\ \A o \in Oracles :
               LET r == Void(tree', last'.a, o) IN
               /\ r.st = "ok"
               /\ r.ret = <<>>
               /\ VIsInit(r.t.proxies, last'.a)
               /\ r.t.proxies.data[last'.a].tag = "V"
               /\ r.t.proxies.data[last'.a].parent = tree.proxies.data[last'.a].parent
               /\ \A c \in 1..8 : ~VIsInit(r.t.proxies, last'.ret[c])
               /\ Counts(r.t) = Counts(tree)]_vars

\* the payloads of the leaves below node, read through the proxies and the
\* branch records, in the order of the children
RECURSIVE DescLeaves(_, _, _)
DescLeaves(t, node, fuel) ==
    IF fuel = 0 \/ node \notin DOMAIN t.proxies.data THEN <<>>
    ELSE LET px == t.proxies.data[node] IN
         IF px.tag = "L"
         THEN IF px.ref \in DOMAIN t.leaf_data.data THEN <<t.leaf_data.data[px.ref]>>
              ELSE <<>>
         ELSE IF px.tag = "B" /\ px.ref \in DOMAIN t.branch_data.data
         THEN LET ch == t.branch_data.data[px.ref]
                  sub(k) == IF ch[k] = node THEN <<>> ELSE DescLeaves(t, ch[k], fuel - 1)
              IN sub(0) \o sub(1) \o sub(2) \o sub(3) \o sub(4) \o sub(5) \o sub(6) \o sub(7)
         ELSE <<>>

\* a list as a multiset
SeqBag(s) == [x \in {s[i] : i \in DOMAIN s} |-> Cardinality({i \in DOMAIN s : s[i] = x})]

\* the initialized proxies that are leaves
LeafProxies(t) == {i \in VInitSet(t.proxies) : t.proxies.data[i].tag = "L"}

\* C11: set_leaf(target, v) on an initialized target returns and leaves target
\* a Leaf whose payload is v; on a Leaf it returns exactly the old payload and
\* keeps the leaf slot, on a Void it returns the empty list, on a Branch it
\* returns the payloads of all descendant leaves; afterwards the number of
\* initialized leaf slots equals the number of Leaf proxies.
C11_SetLeaf ==
    [][(focus = "tree" /\ st = "ok" /\ last'.op = "set_leaf"
        /\ VIsInit(tree.proxies, last'.a)) =>
         LET target == last'.a
             px == tree.proxies.data[target]
             px2 == tree'.proxies.data[target]
         IN /\ st' = "ok"
            /\ VIsInit(tree'.proxies, target)
            /\ px2.tag = "L"
            /\ VIsInit(tree'.leaf_data, px2.ref)
            /\ VGet(tree'.leaf_data, px2.ref) = last'.v
            /\ px.tag = "L" => /\ VIsInit(tree.leaf_data, px.ref)
                               /\ last'.ret = <<VGet(tree.leaf_data, px.ref)>>
                               /\ px2.ref = px.ref
            /\ px.tag = "V" => last'.ret = <<>>
            /\ px.tag = "B" => SeqBag(last'.ret) = SeqBag(DescLeaves(tree, target, Fuel))
            /\ Cardinality(VInitSet(tree'.leaf_data)) = Cardinality(LeafProxies(tree'))]_vars

\* C12: grow_to_contain(p) returns with the box containing p; it returns true
\* exactly when it grew; when the box already contained p it returns false and
\* changes neither the tree, the height nor the box; every grow adds 1 to the
\* height and the box stays voxel_size * 2^height wide on every axis.
C12_GrowToContain ==
    [][(focus = "voxel" /\ st = "ok" /\ last'.op = "grow_to_contain") =>
         /\ st' = "ok"
         /\ AabbContains(vox'.aabb, last'.a)
         /\ last'.some = (vox'.height > vox.height)
         /\ AabbContains(vox.aabb, last'.a) =>
                ~last'.some /\ tree' = tree /\ vox' = vox
         /\ \A k \in 1..3 : vox'.aabb.maxs[k] - vox'.aabb.mins[k]
                              = vox'.voxel_size[k] * Pow2(vox'.height)]_vars

\* the branch record of the root, as the accessors of the arenas show it
RootChildren(t) ==
    IF VIsInit(t.proxies, t.root) /\ t.proxies.data[t.root].tag = "B"
       /\ VIsInit(t.branch_data, t.proxies.data[t.root].ref)
    THEN <<t.branch_data.data[t.proxies.data[t.root].ref]>>
    ELSE <<>>

\* C13: on a new VoxelOctree with voxel_size (1,1,1), grow_to_contain of the
\* point (-0.5, 0.5, 0.5) grows once: the box becomes {(-1,0,0),(1,2,2)}, the
\* height 1, and the old root is the child at octant 4 of the new root.
C13_GrowthDirection ==
    [][(focus = "voxel" /\ st = "ok" /\ vox = VoxNew(VoxelSize) /\ tree = TreeNew
        /\ last'.op = "grow_to_contain" /\ last'.a = <<-2, 2, 2>>) =>
         /\ st' = "ok"
         /\ last'.some
         /\ vox'.height = 1
         /\ vox'.aabb = Aabb(<<-4, 0, 0>>, <<4, 8, 8>>)
         /\ RootChildren(tree') # <<>>
         /\ RootChildren(tree')[1][4] = tree.root]_vars

\* the proxies that are leaves, whatever the flags say
RawLeaves(t) == {i \in DOMAIN t.proxies.data : t.proxies.data[i].tag = "L"}

\* C14: on a VoxelOctree without leaves whose box contains p,
\* insert_voxel_at(p, v) returns no displaced payload; insert_voxel_at(p, v')
\* right after it returns Some(v), and the leaf iterator then yields exactly
\* one entry, with payload v' and at depth == height.
C14_InsertTwice ==
    [][(focus = "voxel" /\ st = "ok" /\ last'.op = "insert_voxel_at"
        /\ AabbContains(vox.aabb, last'.a)) =>
         /\ RawLeaves(tree) = {} =>
                st' = "ok" /\ last'.err = "" /\ last'.ret = <<>>
         /\ (last.op = "insert_voxel_at" /\ last.err = "" /\ last.ret = <<>>
             /\ last.a = last'.a /\ Cardinality(RawLeaves(tree)) = 1) =>
                /\ st' = "ok" /\ last'.err = ""
                /\ last'.ret = <<last.v>>
                /\ LeafDfi(tree').st = "ok"
                /\ Len(LeafDfi(tree').items) = 1
                /\ LeafDfi(tree').items[1][1] = last'.v
                /\ LeafDfi(tree').items[1][2][4] = vox'.height]_vars

\* the node and the box k child steps below (node, bb) on the way to p: at
\* each step the octant has the bit of an axis exactly when p lies strictly
\* above the center of the box on that axis. <<>> when the way ends earlier.
RECURSIVE Descend(_, _, _, _, _)
Descend(t, node, bb, p, k) ==
    IF k = 0 THEN <<[idx |-> node, aabb |-> bb]>>
    ELSE IF node \notin DOMAIN t.proxies.data \/ t.proxies.data[node].tag # "B"
            \/ t.proxies.data[node].ref \notin DOMAIN t.branch_data.data
    THEN <<>>
    ELSE LET c == AabbCenter(bb)
             oct == OctantNew(p[1] > c[1], p[2] > c[2], p[3] > c[3])
             lo(i) == IF p[i] > c[i] THEN c[i] ELSE bb.mins[i]
             hi(i) == IF p[i] > c[i] THEN bb.maxs[i] ELSE c[i]
         IN Descend(t, t.branch_data.data[t.proxies.data[node].ref][oct],
                    Aabb(<<lo(1), lo(2), lo(3)>>, <<hi(1), hi(2), hi(3)>>), p, k - 1)

\* C15: node_containing(p) returns PointOutOfBounds exactly when p is outside
\* the box (bounds inclusive); otherwise it returns (box, idx, proxy, depth)
\* where idx is a non-Branch node reached from the root in depth child steps,
\* depth <= height, box is the root box halved along the followed octants
\* (ties on a center plane go to the lower octant), and box contains p.
C15_NodeContaining ==
    [][(focus = "voxel" /\ st = "ok" /\ last'.op = "node_containing") =>
         /\ st' = "ok"
         /\ (last'.err = "PointOutOfBounds") = ~AabbContains(vox.aabb, last'.a)
         /\ AabbContains(vox.aabb, last'.a) =>
              /\ last'.err = ""
              /\ Len(last'.ret) = 3
              /\ last'.ret[2].tag \in {"V", "L"}
              /\ last'.ret[2] = VGet(tree.proxies, last'.idx)
              /\ last'.ret[3] <= vox.height
              /\ AabbContains(last'.ret[1], last'.a)
              /\ Descend(tree, tree.root, vox.aabb, last'.a, last'.ret[3])
                   = <<[idx |-> last'.idx, aabb |-> last'.ret[1]]>>]_vars

\* every stored index of t names an initialized slot: the root, the parent of
\* every proxy, the slot of every Leaf, the record of every Branch and the
\* eight entries of that record, each of which has the Branch as its parent
Linked(t) ==
    /\ VIsInit(t.proxies, t.root)
    /\ \A i \in VInitSet(t.proxies) :
         LET px == t.proxies.data[i] IN
         /\ VIsInit(t.proxies, px.parent)
         /\ px.tag = "L" => VIsInit(t.leaf_data, px.ref)
         /\ px.tag = "B" =>
              /\ VIsInit(t.branch_data, px.ref)
              /\ \A k \in 0..7 :
                   /\ VIsInit(t.proxies, t.branch_data.data[px.ref][k])
                   /\ t.proxies.data[t.branch_data.data[px.ref][k]].parent = i

\* C16: defragment completes on every tree the operations build; afterwards
\* root denotes the same node, leaf_dfi yields the same multiset of
\* (payload, node point) pairs as before, and the stored indices are remapped
\* consistently.
C16_DefragmentPreserves ==
    [][(focus = "tree" /\ st = "ok" /\ last'.op = "defragment") =>
         /\ st' = "ok"
         /\ VIsInit(tree'.proxies, tree'.root)
         /\ tree'.proxies.data[tree'.root].tag = tree.proxies.data[tree.root].tag
         /\ tree'.proxies.data[tree'.root].parent = tree'.root
         /\ LeafDfi(tree).st = "ok" =>
              /\ LeafDfi(tree').st = "ok"
              /\ SeqBag(LeafDfi(tree').items) = SeqBag(LeafDfi(tree).items)
         /\ Linked(tree) => Linked(tree')]_vars

\* the leaf iterator started at node n instead of the root
DfsFrom(t, n) ==
    IF ~VIsInit(t.proxies, n) THEN [st |-> "panic", items |-> <<>>]
    ELSE LeafIterRun(t, << <<n, 0, <<0, 0, 0, 0>> >> >>, <<>>, <<>>, Fuel)

\* C17: graft(other, n) on an initialized Void node n succeeds; n keeps its
\* index and its parent, and the depth-first traversal from n then yields the
\* (payload, node point relative to n) pairs that the traversal of other from
\* its root yielded.
C17_GraftUnderVoid ==
    [][(focus = "tree" /\ st = "ok" /\ last'.op = "graft"
        /\ VIsInit(tree.proxies, last'.a) /\ tree.proxies.data[last'.a].tag = "V") =>
         /\ st' = "ok"
         /\ last'.err = ""
         /\ VIsInit(tree'.proxies, last'.a)
         /\ tree'.proxies.data[last'.a].parent = tree.proxies.data[last'.a].parent
         /\ LeafDfi(last'.ret[1]).st = "ok" =>
              DfsFrom(tree', last'.a) = LeafDfi(last'.ret[1])]_vars

\* C18: merge_branch(b) on a Branch with at least one descendant leaf turns b
\* into a Leaf whose payload is the combine function (max) folded over the
\* payloads of the descendant leaves, frees the old leaf slots, and leaf_dfi
\* from b then yields exactly that value; on a Branch without a descendant
\* leaf it returns NoLeafs, and on a non-Branch it returns NotABranch.
C18_MergeBranch ==
    [][(focus = "tree" /\ st = "ok" /\ last'.op = "merge_branch"
        /\ last'.a \in DOMAIN tree.proxies.data
        /\ (VIsInit(tree.proxies, last'.a) \/ last'.a = tree.root)) =>
         LET b == last'.a
             px == tree.proxies.data[b]
             leaves == DescLeaves(tree, b, Fuel)
         IN /\ st' = "ok"
            /\ (px.tag = "B" /\ leaves # <<>>) =>
                 /\ last'.err = ""
                 /\ tree'.proxies.data[b].tag = "L"
                 /\ VGet(tree'.leaf_data, tree'.proxies.data[b].ref)
                      = SetMax({leaves[i] : i \in DOMAIN leaves})
                 /\ DfsFrom(tree', b) =
                      [st |-> "ok",
                       items |-> << <<SetMax({leaves[i] : i \in DOMAIN leaves}),
                                      <<0, 0, 0, 0>> >> >>]
                 /\ Cardinality(VInitSet(tree'.leaf_data))
                      = Cardinality(VInitSet(tree.leaf_data)) - Len(leaves) + 1
            /\ (px.tag = "B" /\ leaves = <<>>) => last'.err = "NoLeafs"
            /\ px.tag \in {"V", "L"} => last'.err = "NotABranch"]_vars

\* C20: locator round trip - for every node n of the tree, node_point_of(n)
\* returns a node point np with node_at(np) = n when n is not a Branch and
\* node_point_of(node_at(np)) = np; node_point_of(root) is (0,0,0,0); and
\* node_at with a depth larger than the tree, (0,0,0,5) on a branched root
\* whose children are Void, returns the octant-0 child of the root.
C20_LocatorRoundTrip ==
    [][(focus = "tree" /\ st = "ok") =>
         /\ (/\ last'.op = "node_point_of"
             /\ last'.a \in DOMAIN tree.proxies.data
             /\ (VIsInit(tree.proxies, last'.a) \/ last'.a = tree.root)) =>
               /\ st' = "ok"
               /\ last'.err = ""
               /\ last'.a = tree.root => last'.ret = <<0, 0, 0, 0>>
               /\ NodeAt(tree, last'.ret).st = "ok"
               /\ tree.proxies.data[last'.a].tag # "B" =>
                    NodeAt(tree, last'.ret).idx = last'.a
               /\ NodePointOf(tree, NodeAt(tree, last'.ret).idx) =
                    [st |-> "ok", np |-> last'.ret]
         /\ (/\ last'.op = "node_at"
             /\ last'.a = <<0, 0, 0, 5>>
             /\ tree.root \in DOMAIN tree.proxies.data
             /\ tree.proxies.data[tree.root].tag = "B"
             /\ \A k \in 0..7 :
                  tree.proxies.data[
                      tree.branch_data.data[tree.proxies.data[tree.root].ref][k]].tag = "V") =>
               /\ st' = "ok"
               /\ last'.idx =
                    tree.branch_data.data[tree.proxies.data[tree.root].ref][0]]_vars

\* C25: octant negation is the antipode - for every octant o in 0..7, !o is
\* o XOR 0b111 = 7 - o, each of the i, j and k bits is flipped, !!o = o and
\* !o # o.
C25_NotAntipode ==
    (focus = "octant" /\ last.op = "not") =>
        /\ last.idx = 7 - last.a
        /\ last.idx \in 0..7
        /\ OctI(last.idx) = 4 - OctI(last.a)
        /\ OctJ(last.idx) = 2 - OctJ(last.a)
        /\ OctK(last.idx) = 1 - OctK(last.a)
        /\ OctNot(last.idx) = last.a
        /\ last.idx # last.a

\* !Octant(5) was taken and gave Octant(2)
C25_Witness == focus = "octant" /\ last.op = "not" /\ last.a = 5 /\ last.idx = 2

\* the node voxel_at is to return: the first non-Branch node on the way from
\* node down to voxel p of the cube of edge size that node covers
RECURSIVE VoxelNode(_, _, _, _, _)
VoxelNode(t, node, p, size, fuel) ==
    IF t.proxies.data[node].tag # "B" \/ fuel = 0 \/ size < 2 THEN node
    ELSE LET half == size \div 2
             oct == OctantNew(p[1] >= half, p[2] >= half, p[3] >= half)
         IN VoxelNode(t, t.branch_data.data[t.proxies.data[node].ref][oct],
                      <<p[1] % half, p[2] % half, p[3] % half>>, half, fuel - 1)

\* C21: voxel_at(p) returns VoxelOutOfGrid exactly when a coordinate of p is
\* >= 2^height, and for p inside the grid the index of the unique non-Branch
\* node on the way from the root to voxel p (the root's own index when the
\* root is not a Branch).
C21_VoxelAt ==
    [][(focus = "tree" /\ st = "ok" /\ last'.op = "voxel_at") =>
         /\ st' = "ok"
         /\ LET size == Pow2(height_from(tree, tree.root).ret)
                p == last'.a
            IN IF p[1] >= size \/ p[2] >= size \/ p[3] >= size
               THEN last'.err = "VoxelOutOfGrid"
               ELSE /\ last'.err = ""
                    /\ last'.idx = VoxelNode(tree, tree.root, p, size, Fuel)]_vars

\* C23: no operation blocks - no call on the tree by its single owner waits
\* for a lock; height() with an empty height cache and branch() on a Void
\* node with a filled cache do not ask for the write side of height_cache
\* while holding their own read guard.
C23_NoBlocking ==
    [][(focus = "tree" /\ st = "ok") => st' # "blocked"]_vars

\* C24: height() returns the number of divisions of the tree, the greatest
\* depth of a node below the root, in every state reached by height() calls
\* interleaved with branch, void, set_leaf, grow, merge_branch and graft.
C24_Height ==
    [][(focus = "tree" /\ st = "ok" /\ last'.op = "height") =>
         /\ st' = "ok"
         /\ last'.idx = height_from(tree, tree.root).ret
         /\ tree'.height_cache \in {-1, last'.idx}]_vars

\* the nodes below and including node in depth-first pre-order, children in
\* octant order, as <<node, depth>>, read through the proxies and the branch
\* records
RECURSIVE PreOrder(_, _, _, _)
PreOrder(t, node, depth, fuel) ==
    IF fuel = 0 \/ node \notin DOMAIN t.proxies.data THEN <<>>
    ELSE LET px == t.proxies.data[node] IN
         IF px.tag = "B" /\ px.ref \in DOMAIN t.branch_data.data
         THEN LET ch == t.branch_data.data[px.ref]
                  sub(k) == IF ch[k] = node THEN <<>>
                            ELSE PreOrder(t, ch[k], depth + 1, fuel - 1)
              IN << <<node, depth>> >> \o sub(0) \o sub(1) \o sub(2) \o sub(3)
                   \o sub(4) \o sub(5) \o sub(6) \o sub(7)
         ELSE << <<node, depth>> >>

\* the leaves of a pre-order list
LeavesOf(t, s) == SelectSeq(s, LAMBDA e : t.proxies.data[e[1]].tag = "L")

\* C22: leaf_dfi yields every leaf reachable from the root exactly once and
\* node_iter every node reachable from the root exactly once, in depth-first
\* pre-order with the children in octant order, each item with a node point
\* whose depth is the number of ancestors; both end (and then stay at None).
C22_DepthFirst ==
    [][(focus = "tree" /\ st = "ok" /\ last'.op \in {"leaf_dfi", "node_iter"}) =>
         LET all == PreOrder(tree, tree.root, 0, Fuel)
             leaves == LeavesOf(tree, all)
             items == last'.ret
         IN /\ st' = "ok"
            /\ last'.op = "leaf_dfi" =>
                 /\ Len(items) = Len(leaves)
                 /\ \A i \in DOMAIN items :
                      /\ items[i][1] = tree.leaf_data.data[tree.proxies.data[leaves[i][1]].ref]
                      /\ items[i][2][4] = leaves[i][2]
            /\ last'.op = "node_iter" =>
                 /\ Len(items) = Len(all)
                 /\ \A i \in DOMAIN items :
                      /\ items[i][1] = tree.proxies.data[all[i][1]]
                      /\ items[i][2][4] = all[i][2]]_vars

\* the node whose parent is itself that the parent fields lead to from n: -1
\* when the chain leaves the proxies that hold a value, -2 when it does not
\* end within Fuel steps
RECURSIVE ChainEnd(_, _, _)
ChainEnd(t, n, fuel) ==
    IF n \notin DOMAIN t.proxies.data \/ t.proxies.data[n].tag = "N" THEN -1
    ELSE IF t.proxies.data[n].parent = n THEN n
    ELSE IF fuel = 0 THEN -2
    ELSE ChainEnd(t, t.proxies.data[n].parent, fuel - 1)

\* C26: parent-chain walks terminate - in every state reached by branch,
\* void, set_leaf, grow and graft calls, the parent fields lead from every
\* initialized node to the self-loop of the root after finitely many steps,
\* so depth_of and node_point_of return, and node_point_of(idx).w is
\* depth_of(idx).
C26_ParentChain ==
    (focus = "tree" /\ st = "ok"
     /\ last.op \in {"new", "branch", "void", "set_leaf", "grow", "graft"}) =>
        \A n \in VInitSet(tree.proxies) :
            /\ ChainEnd(tree, n, Fuel) = tree.root
            /\ depth_of_unchecked(tree, n).st = "ok"
            /\ NodePointOf(tree, n).st = "ok"
            /\ NodePointOf(tree, n).np[4] = depth_of_unchecked(tree, n).depth

\* node_containing(p) returns the Leaf that holds v
FindsLeaf(vo, t, p, v) ==
    LET r == NodeContaining(vo, t, p)
    IN /\ r.st = "ok"
       /\ r.prox.tag = "L"
       /\ r.prox.ref \in DOMAIN t.leaf_data.data
       /\ t.leaf_data.data[r.prox.ref] = v

\* C27: a stored voxel stays findable after growth - when node_containing(p)
\* returns the Leaf holding v (p anywhere in the box, its faces, edges and
\* corners included), it still does after a grow_to_contain(q), and a further
\* insert_voxel_at(p, v2) displaces v instead of making a second leaf.
C27_FindableAfterGrowth ==
    [][(focus = "voxel" /\ st = "ok") =>
         \A p \in Points, v \in Val :
            FindsLeaf(vox, tree, p, v) =>
              /\ last'.op = "grow_to_contain" =>
                   (st' = "ok" /\ FindsLeaf(vox', tree', p, v))
              /\ (last'.op = "insert_voxel_at" /\ last'.a = p) =>
                   /\ st' = "ok"
                   /\ last'.ret = <<v>>
                   /\ Cardinality(RawLeaves(tree')) = Cardinality(RawLeaves(tree))]_vars

\* C28: in every VoxelOctree state reached by grow, grow_to_contain and
\* insert_voxel_at, every Leaf is at depth exactly height and no node is
\* deeper than height; insert_voxel_at(p, v) with p inside the box returns,
\* and never with BranchCollision.
C28_LeafDepth ==
    [][(focus = "voxel" /\ st = "ok") =>
         /\ (st' = "ok" /\ last'.op \in {"vox_grow", "grow_to_contain", "insert_voxel_at"}) =>
              \A n \in DOMAIN tree'.proxies.data :
                 /\ tree'.proxies.data[n].tag = "L" =>
                      depth_of_unchecked(tree', n) = [st |-> "ok", depth |-> vox'.height]
                 /\ VIsInit(tree'.proxies, n) =>
                      /\ depth_of_unchecked(tree', n).st = "ok"
                      /\ depth_of_unchecked(tree', n).depth <= vox'.height
         /\ (last'.op = "insert_voxel_at" /\ AabbContains(vox.aabb, last'.a)) =>
              /\ st' = "ok"
              /\ last'.err = ""]_vars

\* the children a node names in its branch record
ChildrenOf(t, n) ==
    IF n \in DOMAIN t.proxies.data /\ t.proxies.data[n].tag = "B"
       /\ t.proxies.data[n].ref \in DOMAIN t.branch_data.data
    THEN {t.branch_data.data[t.proxies.data[n].ref][k] : k \in 0..7}
    ELSE {}

\* the nodes reached from the nodes of S through branch records
RECURSIVE ReachFrom(_, _, _)
ReachFrom(t, S, fuel) ==
    IF fuel = 0 \/ UNION {ChildrenOf(t, n) : n \in S} \subseteq S THEN S
    ELSE ReachFrom(t, S \cup UNION {ChildrenOf(t, n) : n \in S}, fuel - 1)

\* the nodes reached from the root that are of the variant tag
ReachTagged(t, tag) ==
    {n \in ReachFrom(t, {t.root}, Fuel) :
        n \in DOMAIN t.proxies.data /\ t.proxies.data[n].tag = tag}

\* C29: no orphans and no aliasing - after any sequence of branch, void,
\* set_leaf, grow, merge_branch and graft calls every initialized proxy is
\* reached from the root through branch records, every initialized branch
\* record is named by exactly one Branch proxy and every initialized leaf slot
\* by exactly one Leaf proxy, so len_init of each arena is the number of
\* reachable nodes, branches and leaves.
C29_NoOrphans ==
    (focus = "tree" /\ st = "ok"
     /\ last.op \in {"new", "branch", "void", "set_leaf", "grow", "merge_branch", "graft"}) =>
        /\ VInitSet(tree.proxies) \subseteq ReachFrom(tree, {tree.root}, Fuel)
        /\ \A b \in VInitSet(tree.branch_data) :
              Cardinality({n \in ReachTagged(tree, "B") : tree.proxies.data[n].ref = b}) = 1
        /\ \A l \in VInitSet(tree.leaf_data) :
              Cardinality({n \in ReachTagged(tree, "L") : tree.proxies.data[n].ref = l}) = 1
        /\ VLenInit(tree.proxies) = Cardinality(ReachFrom(tree, {tree.root}, Fuel))
        /\ VLenInit(tree.branch_data) = Cardinality(ReachTagged(tree, "B"))
        /\ VLenInit(tree.leaf_data) = Cardinality(ReachTagged(tree, "L"))

\* some slot that is_init answers false for lies below one it answers true for
LHole(s) == \E i \in LFreeSet(s), j \in LInitSet(s) : i < j
VHole(s) == \E i \in VFreeSet(s), j \in VInitSet(s) : i < j

\* C30: is_fragmented() is true exactly when an uninitialized slot lies below
\* an initialized one; right after defragment() it is false, spare capacity
\* behind the initialized prefix or not, so as_slice returns Some and the
\* unwrap of proxies.as_slice_mut() in Octree::defragment does not fail.
C30_IsFragmented ==
    [][(st = "ok" /\ st' = "ok") =>
         /\ (focus = "lib" /\ last'.op = "as_slice") => (last'.some <=> ~LHole(sv))
         /\ (focus = "vec" /\ last'.op = "as_slice") => (last'.some <=> ~VHole(vv))
         /\ (focus = "lib" /\ last'.op = "defragment") => ~LIsFragmented(sv')
         /\ (focus = "vec" /\ last'.op = "defragment") => ~VIsFragmented(vv')
         /\ (focus = "tree" /\ last'.op = "defragment") =>
              ~VIsFragmented(tree'.proxies)]_vars


=============================================================================
